---- MODULE Spec2Model ----
(***************************************************************************)
(* Model of the migration orchestration engine of lorawan-keymanager:      *)
(* MigrationService.migrateDevice / migrateDevices / discoverDevices, the  *)
(* record store (Database) they write, and the ChirpStackClient calls they *)
(* issue against the source and the target backend.                        *)
(*                                                                         *)
(* Every awaited call of the code is one action: the action is the         *)
(* completion of the call (with the outcome the record store or the        *)
(* backend gave) followed by the code that runs up to the next await.      *)
(***************************************************************************)
EXTENDS Integers, Sequences, FiniteSets, TLC

VARIABLES
    devices,      \* record store, table devices: devEUI -> row, or Absent
    history,      \* record store, table migration_history (row id = index)
    sessionKeys,  \* record store, table session_keys (row id = index)
    profiles,     \* record store, table device_profiles: the profileIds held
    source,       \* source backend: keys and activation of each device
    tenant,       \* source backend: the applications of the tenant, with
                  \* the devices of each
    lorawanVersion, \* oldLNS.lorawanVersion
    sweep,        \* discoverDevices: the locals of the current run
    sweeps,       \* ghost: number of discoverDevices runs started so far
    target,       \* target backend: number of device records per devEUI
    targetKeys,   \* target backend: the keys stored per devEUI, or NoKeys
    isHelium,     \* newLNS.isHeliumChirpStack (REST variant)
    tasks,        \* the migrateDevice invocations of the current run
    devEUIs,      \* migrateDevices: the list being migrated
    batchSize,    \* migrateDevices: the batch size in use
    i,            \* migrateDevices: loop offset
    bpc,          \* migrateDevices: position ("none", "chunk", "pause", "done")
    results,      \* migrateDevices: the aggregate being built
    chunks,       \* ghost: the batches sliced so far, in order
    pauses,       \* ghost: number of inter-batch delays awaited
    invocations,  \* ghost: number of migrateDevice invocations started so far
    keyClient,    \* a ChirpStackClient called directly: its key call in progress
    remote,       \* the backend that client talks to: the two key fields it holds
    ui,           \* browser UI: selection, flag and the run of
                  \* migrateSelectedDevices
    faultsLeft    \* ghost: number of calls that may still fail

\* what discoverDevices reads and writes besides the devices table
discVars == <<sessionKeys, profiles, source, tenant, ui, lorawanVersion, sweep,
              sweeps>>

\* what migrateDevice and migrateDevices read and write besides it
migVars == <<history, target, targetKeys, isHelium, tasks, devEUIs, batchSize,
             i, bpc, results, chunks, pauses, invocations>>

\* what the key calls of a ChirpStackClient used on its own read and write
keyVars == <<keyClient, remote>>

vars == <<devices, migVars, discVars, keyVars, faultsLeft>>

----------------------------------------------------------------------------
(* Bounds of the model *)

\* number of sequential migrateDevice invocations in one behaviour of Spec
MaxInvocations == 3
\* number of record-store or backend calls that fail in one behaviour of Spec
MaxFaults == 2
\* number of record-store or backend calls that fail in one migrateDevices run
MaxBatchFaults == 1
\* longest devEUIs list handed to migrateDevices
MaxN == 3
\* largest batchSize handed to migrateDevices
MaxBatch == 2
\* number of discoverDevices runs in one behaviour
MaxSweeps == 2
\* number of record-store or backend calls that fail across those runs
MaxSweepFaults == 2
\* the number of loop iterations of migrateDevices followed
MaxChunks == 5
\* number of key-assignment calls made on a client used on its own
MaxKeyCalls == 2

----------------------------------------------------------------------------
(* Values *)

D1 == "70B3D57ED0049D2A"
D2 == "70B3D57ED0049D2B"
DevEUIs == {D1, D2}

Placeholder == "00000000000000000000000000000000"
K1 == "11111111111111111111111111111111"
K2 == "22222222222222222222222222222222"
NullKey == "null"
\* no row for the devEUI (getDevice answers undefined)
Absent == [absent |-> TRUE]
\* no keys stored for the device on the backend
NoKeys == [nokeys |-> TRUE]

StoredKeys == {NullKey, Placeholder, K1}

\* the message of the error thrown at line 130
NotFound == "not found in local database"

Terminal == {"completed", "requires_manual_steps", "failed"}

Min(a, b) == IF a < b THEN a ELSE b

\* no activation read yet
NoActivation == [noactivation |-> TRUE]

\* the configuration of the target client: the newLNS block of the example
\* configuration with its flag set either way
TargetConfig(flag) ==
    [isHeliumChirpStack |-> flag, name |-> "Target LNS",
     baseUrl |-> "https://your-new-lns-host:443"]

\* a client built from config with no call in progress; requests are the key
\* requests it sent so far, activations the activation requests, outcome how
\* the last call ended
IdleClient(config) ==
    [pc |-> "idle", config |-> config, keysData |-> NullKey,
     requests |-> <<>>, calls |-> 0, read |-> NoKeys,
     activation |-> NoActivation, activations |-> <<>>, outcome |-> "none"]

\* the applications of the source tenant and the devices listed in each
SourceApps ==
    <<[id |-> "app1", devices |-> <<D1>>], [id |-> "app2", devices |-> <<D2>>]>>

\* the page as loaded: nothing selected, no migration in progress (lines
\* 310-311).  ended is a ghost: how the last run of migrateSelectedDevices
\* ended.
IdleUI ==
    [pc |-> "idle", migrationInProgress |-> FALSE, selectedDevices |-> {},
     devEUIArray |-> <<>>, i |-> 0, pending |-> {}, completed |-> 0,
     ended |-> "none"]

\* the locals of discoverDevices before it is called
IdleSweep ==
    [pc |-> "idle", apps |-> <<>>, found |-> <<>>, idx |-> 0,
     info |-> [absent |-> TRUE],
     results |-> [total |-> 0, synced |-> 0, errors |-> <<>>]]

----------------------------------------------------------------------------
(* Record store (Database) *)

\* mutant: the insert replaces the row the devEUI already has, if any
SaveMigrationRecord_Upsert(hist, record, by) ==
    LET row == [devEUI           |-> record.devEUI,
                status           |-> record.status,
                migration_options |-> record.migration_options,
                error_message    |-> record.error_message,
                completed_at     |-> "null",
                by               |-> by]
        held == {r \in DOMAIN hist : hist[r].devEUI = record.devEUI}
    IN  IF held = {}
        THEN Append(hist, row)
        ELSE [r \in DOMAIN hist |-> IF r \in held THEN row ELSE hist[r]]

\* INSERT INTO migration_history (devEUI, sourceLNS, targetLNS, status,
\* migration_options, error_message): completed_at is not in the column list
\* and has no default, so the new row has completed_at NULL.  `by` is a ghost
\* column: the invocation that inserted the row.
SaveMigrationRecord(hist, record, by) ==
    Append(hist, [devEUI           |-> record.devEUI,
                  status           |-> record.status,
                  migration_options |-> record.migration_options,
                  error_message    |-> record.error_message,
                  completed_at     |-> "null",
                  by               |-> by])

\* mutant: the UPDATE selects by the row's devEUI instead of its id
UpdateMigrationStatus_ByDevEUI(hist, id, status, error, completedAt) ==
    [r \in DOMAIN hist |->
        IF hist[r].devEUI = hist[id].devEUI
        THEN [hist[r] EXCEPT !.status = status,
                             !.error_message = error,
                             !.completed_at = IF completedAt = "null"
                                              THEN "now" ELSE completedAt]
        ELSE hist[r]]

\* UPDATE migration_history SET status, error_message, completed_at WHERE id;
\* the third value bound is `completedAt || new Date().toISOString()`.
UpdateMigrationStatus(hist, id, status, error, completedAt) ==
    [r \in DOMAIN hist |->
        IF r = id
        THEN [hist[r] EXCEPT !.status = status,
                             !.error_message = error,
                             !.completed_at = IF completedAt = "null"
                                              THEN "now" ELSE completedAt]
        ELSE hist[r]]

----------------------------------------------------------------------------
(* migrateDevice: pure parts *)

\* localDevice.appKey && localDevice.appKey !== '000...0'
HasRealAppKey(appKey) == appKey # NullKey /\ appKey # Placeholder

\* mutant: only a missing appKey is treated as unknown, the placeholder is not
NeedsManualAppKey_NullOnly(appKey) == appKey = NullKey

NeedsManualAppKey(appKey) == ~HasRealAppKey(appKey)

\* mutant: only the word 'duplicate' is recognised as a Conflict
IsConflict_DuplicateOnly(answer) == answer = "duplicate"

\* error.message includes 'duplicate' or 'already exists'
IsConflict(answer) == answer = "already exists"

\* the status written to the record and returned
StatusOf(requiresManualSteps) ==
    IF requiresManualSteps THEN "requires_manual_steps" ELSE "completed"

\* the state of a migrateDevice invocation at its first await, db.getDevice
NewTask(devEUI, inv) ==
    [devEUI |-> devEUI, inv |-> inv, pc |-> "getDevice",
     appKey |-> NullKey, requiresManualSteps |-> FALSE, deviceExists |-> FALSE,
     notes |-> {}, recId |-> 0, err |-> "null", outcome |-> "none",
     log |-> <<"db.getDevice">>, keyRequests |-> 0]

Call(task, pc, name) == [task EXCEPT !.pc = pc, !.log = Append(@, name)]

\* mutant: the catch records a fixed text instead of error.message
Catch_NoReason(task, message) ==
    Call([task EXCEPT !.err = "migration failed"],
         "saveFailed", "db.saveMigrationRecord")

\* entry of the catch block: saveMigrationRecord for the failed attempt
Catch(task, message) ==
    Call([task EXCEPT !.err = message], "saveFailed", "db.saveMigrationRecord")

\* this.newLNS.isHeliumChirpstack, the property line 216 reads: the
\* ChirpStackClient constructor assigns isHeliumChirpStack (capital S) and
\* nothing assigns this one, so the read yields undefined whatever the variant
isHeliumChirpstack == FALSE

\* lines 215-238: the helium note, then saveMigrationRecord
ToSave(task) ==
    Call([task EXCEPT !.notes = IF isHeliumChirpstack
                                THEN @ \cup {"activation_skipped"}
                                ELSE @],
         "save", "db.saveMigrationRecord")

\* lines 169-213 up to the next await
AfterProvision(task) ==
    IF NeedsManualAppKey(task.appKey)
    THEN ToSave([task EXCEPT !.notes = @ \cup {"manual_appkey"},
                             !.requiresManualSteps = TRUE])
    ELSE [task EXCEPT !.pc = "delay"]

\* mutant: with options.migrateSessionKeys the session is activated on the
\* target once the key is set
KeySet_ActivatesOnRequest(task) ==
    ToSave([task EXCEPT
        !.notes = @ \cup {"key_set", "ready"},
        !.log = IF "options" \in DOMAIN task /\ task.options.migrateSessionKeys
                THEN Append(@, "activateDevice") ELSE @])

KeySet(task) == ToSave([task EXCEPT !.notes = @ \cup {"key_set", "ready"}])

\* mutant: the manual steps are noted without the text of the key error
KeyError_NoReason(task) ==
    ToSave([task EXCEPT !.notes = @ \cup {"key_failed"},
                        !.requiresManualSteps = TRUE])

\* mutant: the key failure is noted but requiresManualSteps is not set
KeyError_NotFlagged(task) ==
    ToSave([task EXCEPT !.notes = @ \cup {"key_failed", "key_error_text"}])

KeyError(task) ==
    ToSave([task EXCEPT !.notes = @ \cup {"key_failed", "key_error_text"},
                        !.requiresManualSteps = TRUE])

\* mutant: the key is written to the appKey field only
DeviceKeys_AppKeyOnly(appKey) == [nwkKey |-> Placeholder, appKey |-> appKey]

\* the keys both key-assignment methods send
DeviceKeys(appKey) == [nwkKey |-> appKey, appKey |-> appKey]

----------------------------------------------------------------------------
(* migrateDevices: pure parts *)

\* mutant: the slice runs one entry too far, slice(i, i + batchSize + 1)
Slice_OneTooFar(list, from, size) ==
    SubSeq(list, from + 1, Min(from + size + 1, Len(list)))

\* the number that is not one: what arithmetic on undefined yields.  It stands
\* outside every range the offsets and sizes below can reach.
NaN == 0 - 1000000

Max(a, b) == IF a < b THEN b ELSE a

\* a + b and a < b on numbers (lines 296, 297, 315)
Plus(a, b) == IF a = NaN \/ b = NaN THEN NaN ELSE a + b

LessThan(a, b) == a # NaN /\ b # NaN /\ a < b

\* Array.prototype.slice: an index counted from the end when negative,
\* clamped to the array, 0 when not a number
SliceIndex(k, len) ==
    IF k = NaN THEN 0
    ELSE IF k < 0 THEN Max(len + k, 0)
    ELSE Min(k, len)

\* devEUIs.slice(i, i + batchSize)
Slice(list, from, size) ==
    SubSeq(list, SliceIndex(from, Len(list)) + 1,
           SliceIndex(Plus(from, size), Len(list)))

\* the migration block of the configuration (example configuration, lines
\* 240-247 of the README part)
ConfigMigration ==
    [batchSize |-> 10, retryAttempts |-> 3, retryDelay |-> 2000,
     preserveDeviceNames |-> TRUE, validateAppKeys |-> TRUE]

\* config.migration.defaultBatchSize
DefaultBatchSize ==
    IF "defaultBatchSize" \in DOMAIN ConfigMigration
    THEN ConfigMigration.defaultBatchSize
    ELSE NaN

\* options without a batchSize
NoOptions == [targetApplicationId |-> "app"]

\* options.batchSize || config.migration.defaultBatchSize (line 286)
BatchSizeOf(options) ==
    LET own == IF "batchSize" \in DOMAIN options
               THEN options.batchSize ELSE NaN
    IN  IF own # NaN /\ own # 0 THEN own ELSE DefaultBatchSize

EmptyResults == [total |-> 0, successful |-> 0, failed |-> 0, errors |-> <<>>]

\* mutant: only a completed device counts as successful
Settle_ManualAsFailed(res, task) ==
    IF task.outcome # "completed"
    THEN [res EXCEPT !.failed = @ + 1,
                     !.errors = Append(@, [devEUI |-> task.devEUI,
                                           error |-> task.err])]
    ELSE [res EXCEPT !.successful = @ + 1]

\* the continuation of the batch.map callback after migrateDevice settled
Settle(res, task) ==
    IF task.outcome = "failed"
    THEN [res EXCEPT !.failed = @ + 1,
                     !.errors = Append(@, [devEUI |-> task.devEUI,
                                           error |-> task.err])]
    ELSE [res EXCEPT !.successful = @ + 1]

----------------------------------------------------------------------------
(* Steps of one migrateDevice invocation *)

Ok == faultsLeft' = faultsLeft
Fail == faultsLeft > 0 /\ faultsLeft' = faultsLeft - 1

\* the invocation t settles; inside migrateDevices the callback counts it
Finish(t, task) ==
    /\ tasks' = [tasks EXCEPT ![t] = task]
    /\ results' = IF bpc = "chunk" THEN Settle(results, task) ELSE results

Step(t, task) == tasks' = [tasks EXCEPT ![t] = task] /\ UNCHANGED results

Returned(task) ==
    [task EXCEPT !.pc = "returned",
                 !.outcome = StatusOf(task.requiresManualSteps)]

Thrown(task, message) ==
    [task EXCEPT !.pc = "thrown", !.outcome = "failed", !.err = message]

Others == <<devices, isHelium, devEUIs, batchSize, i, bpc, chunks, pauses,
            invocations, discVars, keyVars>>

\* mutant: the row read is consumed, the device leaves the devices table
GetDeviceDone_ConsumesRow(t) ==
    /\ tasks[t].pc = "getDevice"
    /\ Ok
    /\ devices[tasks[t].devEUI] # Absent
    /\ devices' = [devices EXCEPT ![tasks[t].devEUI] = Absent]
    /\ Step(t, Call([tasks[t] EXCEPT
                        !.appKey = devices[tasks[t].devEUI].appKey],
                    "createDevice", "createDevice"))
    /\ UNCHANGED <<history, target, targetKeys, isHelium, devEUIs, batchSize,
                   i, bpc, chunks, pauses, invocations, discVars, keyVars>>

\* db.getDevice answered (lines 128-152)
GetDeviceDone(t) ==
    /\ tasks[t].pc = "getDevice"
    /\ \/ /\ Fail
          /\ Step(t, Catch(tasks[t], "db error"))
       \/ /\ Ok
          /\ devices[tasks[t].devEUI] = Absent
          /\ Step(t, Catch(tasks[t], NotFound))
       \/ /\ Ok
          /\ devices[tasks[t].devEUI] # Absent
          /\ Step(t, Call([tasks[t] EXCEPT
                              !.appKey = devices[tasks[t].devEUI].appKey],
                          "createDevice", "createDevice"))
    /\ UNCHANGED <<history, target, targetKeys, Others>>

\* mutant: on a Conflict the create is tried again instead of an update
OnCreateAnswer_CreateAgain(task, answer) ==
    IF answer = "ok"
    THEN AfterProvision(task)
    ELSE IF IsConflict(answer)
         THEN Call([task EXCEPT !.deviceExists = TRUE],
                   "createDevice", "createDevice")
         ELSE Catch(task, answer)

\* mutant: a Conflict is taken as success, updateDevice is not called
OnCreateAnswer_SkipsUpdate(task, answer) ==
    IF answer = "ok"
    THEN AfterProvision(task)
    ELSE IF IsConflict(answer)
         THEN AfterProvision([task EXCEPT !.deviceExists = TRUE])
         ELSE Catch(task, answer)

\* lines 151-167: what migrateDevice does with createDevice's answer
OnCreateAnswer(task, answer) ==
    IF answer = "ok"
    THEN AfterProvision(task)
    ELSE IF IsConflict(answer)
         THEN Call([task EXCEPT !.deviceExists = TRUE],
                   "updateDevice", "updateDevice")
         ELSE Catch(task, answer)

\* newLNS.createDevice answered: the backend creates the device, rejects a
\* devEUI it already has, or the call fails (transport error, timeout)
CreateDeviceDone(t) ==
    LET d == tasks[t].devEUI IN
    /\ tasks[t].pc = "createDevice"
    /\ \/ /\ Ok
          /\ target[d] = 0
          /\ target' = [target EXCEPT ![d] = @ + 1]
          /\ Step(t, OnCreateAnswer(tasks[t], "ok"))
       \/ /\ Ok
          /\ target[d] > 0
          /\ target' = target
          /\ Step(t, OnCreateAnswer(tasks[t], "already exists"))
       \/ /\ Fail
          /\ target' = target
          /\ Step(t, OnCreateAnswer(tasks[t], "transport error"))
    /\ UNCHANGED <<history, targetKeys, Others>>

\* newLNS.updateDevice answered (lines 157-163): a failure is only logged
UpdateDeviceDone(t) ==
    /\ tasks[t].pc = "updateDevice"
    /\ \/ /\ Ok
          /\ Step(t, AfterProvision(tasks[t]))
       \/ /\ Fail
          /\ Step(t, AfterProvision([tasks[t] EXCEPT
                         !.log = Append(@, "could not update")]))
    /\ UNCHANGED <<history, target, targetKeys, Others>>

\* the 1000 ms delay before the keys elapsed (line 190): createDeviceKeys
DelayDone(t) ==
    /\ tasks[t].pc = "delay"
    /\ Ok
    /\ Step(t, [Call(tasks[t], "createKeys", "createDeviceKeys")
                   EXCEPT !.keyRequests = @ + 1])
    /\ UNCHANGED <<history, target, targetKeys, Others>>

\* newLNS.createDeviceKeys answered (lines 193-199): CreateKeys, or POST keys
CreateKeysDone(t) ==
    LET d == tasks[t].devEUI IN
    /\ tasks[t].pc = "createKeys"
    /\ \/ /\ Ok
          /\ targetKeys[d] = NoKeys
          /\ targetKeys' = [targetKeys EXCEPT ![d] = DeviceKeys(tasks[t].appKey)]
          /\ Step(t, KeySet(tasks[t]))
       \/ /\ \/ Ok /\ targetKeys[d] # NoKeys
             \/ Fail
          /\ targetKeys' = targetKeys
          /\ Step(t, [Call(tasks[t], "updateKeys", "updateDeviceKeys")
                         EXCEPT !.keyRequests = @ + 1])
    /\ UNCHANGED <<history, target, Others>>

\* updateDeviceKeys: UpdateKeys, or PUT keys, answered (lines 1116-1133)
UpdateKeysDone(t) ==
    LET d == tasks[t].devEUI IN
    /\ tasks[t].pc = "updateKeys"
    /\ \/ /\ Ok
          /\ targetKeys[d] # NoKeys
          /\ targetKeys' = [targetKeys EXCEPT ![d] = DeviceKeys(tasks[t].appKey)]
          /\ Step(t, KeySet(tasks[t]))
       \/ /\ \/ Ok /\ targetKeys[d] = NoKeys
             \/ Fail
          /\ targetKeys' = targetKeys
          /\ Step(t, IF isHelium
                     THEN [tasks[t] EXCEPT !.pc = "updateKeysPost",
                                           !.keyRequests = @ + 1]
                     ELSE KeyError(tasks[t]))
    /\ UNCHANGED <<history, target, Others>>

\* updateDeviceKeys on the REST variant: the POST fallback answered
UpdateKeysPostDone(t) ==
    LET d == tasks[t].devEUI IN
    /\ tasks[t].pc = "updateKeysPost"
    /\ \/ /\ Ok
          /\ targetKeys[d] = NoKeys
          /\ targetKeys' = [targetKeys EXCEPT ![d] = DeviceKeys(tasks[t].appKey)]
          /\ Step(t, KeySet(tasks[t]))
       \/ /\ \/ Ok /\ targetKeys[d] # NoKeys
             \/ Fail
          /\ targetKeys' = targetKeys
          /\ Step(t, KeyError(tasks[t]))
    /\ UNCHANGED <<history, target, Others>>

\* saveMigrationRecord of the success path answered (lines 238-243)
SaveDone(t) ==
    /\ tasks[t].pc = "save"
    /\ \/ /\ Ok
          /\ history' = SaveMigrationRecord(history,
                 [devEUI |-> tasks[t].devEUI,
                  status |-> StatusOf(tasks[t].requiresManualSteps),
                  migration_options |-> tasks[t].notes,
                  error_message |-> "null"], tasks[t].inv)
          /\ Step(t, Call([tasks[t] EXCEPT !.recId = Len(history) + 1],
                          "updateStatus", "db.updateMigrationStatus"))
       \/ /\ Fail
          /\ history' = history
          /\ Step(t, Catch(tasks[t], "db error"))
    /\ UNCHANGED <<target, targetKeys, Others>>

\* updateMigrationStatus of the success path answered (lines 239-255)
UpdateStatusDone(t) ==
    /\ tasks[t].pc = "updateStatus"
    /\ \/ /\ Ok
          /\ history' = IF tasks[t].requiresManualSteps
                THEN UpdateMigrationStatus(history, tasks[t].recId,
                         "requires_manual_steps", "null", "null")
                ELSE UpdateMigrationStatus(history, tasks[t].recId,
                         "completed", "null", "now")
          /\ Finish(t, Returned(tasks[t]))
       \/ /\ Fail
          /\ history' = history
          /\ Step(t, Catch(tasks[t], "db error"))
    /\ UNCHANGED <<target, targetKeys, Others>>

\* saveMigrationRecord of the catch block answered (lines 264-278)
SaveFailedDone(t) ==
    /\ tasks[t].pc = "saveFailed"
    /\ \/ /\ Ok
          /\ history' = SaveMigrationRecord(history,
                 [devEUI |-> tasks[t].devEUI,
                  status |-> "failed",
                  migration_options |-> {tasks[t].err},
                  error_message |-> "null"], tasks[t].inv)
          /\ Step(t, Call([tasks[t] EXCEPT !.recId = Len(history) + 1],
                          "updateFailed", "db.updateMigrationStatus"))
       \/ /\ Fail
          /\ history' = history
          /\ Finish(t, Thrown(tasks[t], "db error"))
    /\ UNCHANGED <<target, targetKeys, Others>>

\* updateMigrationStatus of the catch block answered (lines 278-280)
UpdateFailedDone(t) ==
    /\ tasks[t].pc = "updateFailed"
    /\ \/ /\ Ok
          /\ history' = UpdateMigrationStatus(history, tasks[t].recId,
                            "failed", tasks[t].err, "null")
          /\ Finish(t, Thrown(tasks[t], tasks[t].err))
       \/ /\ Fail
          /\ history' = history
          /\ Finish(t, Thrown(tasks[t], "db error"))
    /\ UNCHANGED <<target, targetKeys, Others>>

TaskStep(t) ==
    \/ GetDeviceDone(t)
    \/ CreateDeviceDone(t)
    \/ UpdateDeviceDone(t)
    \/ DelayDone(t)
    \/ CreateKeysDone(t)
    \/ UpdateKeysDone(t)
    \/ UpdateKeysPostDone(t)
    \/ SaveDone(t)
    \/ UpdateStatusDone(t)
    \/ SaveFailedDone(t)
    \/ UpdateFailedDone(t)

----------------------------------------------------------------------------
(* Sequential invocations of migrateDevice (POST /api/devices/:devEUI/migrate) *)

Settled(task) == task.pc \in {"returned", "thrown"}

InitStore ==
    /\ devices \in [DevEUIs -> {Absent} \cup [appKey : StoredKeys]]
    /\ history = <<>>
    /\ target = [d \in DevEUIs |-> 0]
    /\ targetKeys = [d \in DevEUIs |-> NoKeys]
    /\ isHelium \in BOOLEAN
    /\ invocations = 0

\* no discoverDevices run in progress; the source backend is not consulted
InitNoSweep ==
    /\ sessionKeys = <<>>
    /\ profiles = {}
    /\ tenant = SourceApps
    /\ ui = IdleUI
    /\ source = [d \in DevEUIs |->
                    [nwkKey |-> Placeholder, appKey |-> Placeholder,
                     activated |-> FALSE]]
    /\ lorawanVersion = "1.0.x"
    /\ sweep = IdleSweep
    /\ sweeps = 0

\* no client is used on its own
InitNoKeyCall ==
    /\ keyClient = IdleClient(TargetConfig(isHelium))
    /\ remote = [nwkKey |-> Placeholder, appKey |-> Placeholder,
                 echo |-> "both", written |-> NullKey, activated |-> FALSE]

InitRun ==
    /\ InitStore
    /\ InitNoSweep
    /\ InitNoKeyCall
    /\ tasks = <<>>
    /\ devEUIs = <<>>
    /\ batchSize = 0
    /\ i = 0
    /\ bpc = "none"
    /\ results = EmptyResults
    /\ chunks = <<>>
    /\ pauses = 0

Init == InitRun /\ faultsLeft = MaxFaults

\* the route handler calls migrateDevice(devEUI, options)
Invoke(d) ==
    /\ \A t \in DOMAIN tasks : Settled(tasks[t])
    /\ invocations < MaxInvocations
    /\ invocations' = invocations + 1
    /\ tasks' = <<NewTask(d, invocations + 1)>>
    /\ UNCHANGED <<devices, history, target, targetKeys, isHelium, devEUIs,
                   batchSize, i, bpc, results, chunks, pauses, faultsLeft,
                   discVars, keyVars>>

Next ==
    \/ \E d \in DevEUIs : Invoke(d)
    \/ \E t \in DOMAIN tasks : GetDeviceDone(t)
    \/ \E t \in DOMAIN tasks : CreateDeviceDone(t)
    \/ \E t \in DOMAIN tasks : UpdateDeviceDone(t)
    \/ \E t \in DOMAIN tasks : DelayDone(t)
    \/ \E t \in DOMAIN tasks : CreateKeysDone(t)
    \/ \E t \in DOMAIN tasks : UpdateKeysDone(t)
    \/ \E t \in DOMAIN tasks : UpdateKeysPostDone(t)
    \/ \E t \in DOMAIN tasks : SaveDone(t)
    \/ \E t \in DOMAIN tasks : UpdateStatusDone(t)
    \/ \E t \in DOMAIN tasks : SaveFailedDone(t)
    \/ \E t \in DOMAIN tasks : UpdateFailedDone(t)

Spec == Init /\ [][Next]_vars

\* the two switches of the options the UI sends along (getMigrationOptions)
MigrationOptions == [migrateSessionKeys : BOOLEAN, removeFromOldLNS : BOOLEAN]

\* the route handler calls migrateDevice(devEUI, options) with options from
\* the request body; the invocation keeps them
InvokeWith(d, options) ==
    /\ \A t \in DOMAIN tasks : Settled(tasks[t])
    /\ invocations < MaxInvocations
    /\ invocations' = invocations + 1
    /\ tasks' = <<NewTask(d, invocations + 1) @@ [options |-> options]>>
    /\ UNCHANGED <<devices, history, target, targetKeys, isHelium, devEUIs,
                   batchSize, i, bpc, results, chunks, pauses, faultsLeft,
                   discVars, keyVars>>

\* a record store holding one device with a real key
InitFlags ==
    /\ InitRun
    /\ faultsLeft = MaxFaults
    /\ devices[D1] = [appKey |-> K1]
    /\ devices[D2] = Absent

NextFlags ==
    \/ \E d \in DevEUIs, options \in MigrationOptions : InvokeWith(d, options)
    \/ \E t \in DOMAIN tasks : GetDeviceDone(t)
    \/ \E t \in DOMAIN tasks : CreateDeviceDone(t)
    \/ \E t \in DOMAIN tasks : UpdateDeviceDone(t)
    \/ \E t \in DOMAIN tasks : DelayDone(t)
    \/ \E t \in DOMAIN tasks : CreateKeysDone(t)
    \/ \E t \in DOMAIN tasks : UpdateKeysDone(t)
    \/ \E t \in DOMAIN tasks : UpdateKeysPostDone(t)
    \/ \E t \in DOMAIN tasks : SaveDone(t)
    \/ \E t \in DOMAIN tasks : UpdateStatusDone(t)
    \/ \E t \in DOMAIN tasks : SaveFailedDone(t)
    \/ \E t \in DOMAIN tasks : UpdateFailedDone(t)

SpecFlags == InitFlags /\ [][NextFlags]_vars

----------------------------------------------------------------------------
(* migrateDevices (POST /api/devices/migrate/batch) *)

\* the state a batch starts from: a REST (helium) target, a device with a real
\* appKey and one that has the placeholder or was never discovered
InitBatch ==
    /\ InitRun
    /\ faultsLeft = MaxBatchFaults
    /\ isHelium
    /\ devices[D1] = [appKey |-> K1]
    /\ devices[D2] \in {[appKey |-> Placeholder], Absent}

\* the lists a caller can hand over, up to the bound: any order, an
\* identifier at most twice
Lists ==
    {l \in UNION {[1..n -> DevEUIs] : n \in 0..MaxN} :
        \A d \in DevEUIs : Cardinality({k \in DOMAIN l : l[k] = d}) <= 2}

\* the invocations started for the batch sliced last
CurrentBatch ==
    {t \in DOMAIN tasks : t > Len(tasks) - Len(chunks[Len(chunks)])}

\* mutant: the await resolves only when no invocation of the batch failed (a
\* callback that lets the rejection through)
BatchSettled_NoneFailed(ts) ==
    \A t \in ts : Settled(tasks[t]) /\ tasks[t].outcome # "failed"

\* mutant: Promise.race instead of Promise.all
BatchSettled_Any(ts) == \E t \in ts : Settled(tasks[t])

\* await Promise.all(batchPromises): resolved once every promise has settled
\* (a batchPromise never rejects: the callback catches)
BatchSettled(ts) == \A t \in ts : Settled(tasks[t])

\* one evaluation of the loop condition at the given offset: either the next
\* batch is sliced and migrateDevice is called for each of its entries, or the
\* loop ends and results is returned
LoopAt(list, size, offset) ==
    LET batch == Slice(list, offset, size) IN
    /\ i' = offset
    /\ IF LessThan(offset, Len(list))
       THEN /\ Len(chunks) < MaxChunks
            /\ bpc' = "chunk"
            /\ chunks' = Append(chunks, batch)
            /\ tasks' = tasks \o [k \in 1..Len(batch) |->
                                     NewTask(batch[k], invocations + k)]
            /\ invocations' = invocations + Len(batch)
       ELSE /\ bpc' = "done"
            /\ UNCHANGED <<chunks, tasks, invocations>>

\* migrateDevices(devEUIs, options) is called (lines 285-310)
StartBatch(list, options) ==
    /\ bpc = "none"
    /\ devEUIs' = list
    /\ batchSize' = BatchSizeOf(options)
    /\ results' = [EmptyResults EXCEPT !.total = Len(list)]
    /\ LoopAt(list, BatchSizeOf(options), 0)
    /\ UNCHANGED <<devices, history, target, targetKeys, isHelium, pauses,
                   faultsLeft, discVars, keyVars>>

\* mutant: the pause is taken after every batch, the last one included
MoreToCome_Always(list, size, offset) == offset < Len(list)

\* i + batchSize < devEUIs.length (line 315)
MoreToCome(list, size, offset) == LessThan(Plus(offset, size), Len(list))

\* Promise.all resolved (lines 312-317): pause, or next loop test
ChunkDone ==
    /\ bpc = "chunk"
    /\ BatchSettled(CurrentBatch)
    /\ IF MoreToCome(devEUIs, batchSize, i)
       THEN /\ bpc' = "pause"
            /\ UNCHANGED <<i, chunks, tasks, invocations>>
       ELSE LoopAt(devEUIs, batchSize, Plus(i, batchSize))
    /\ UNCHANGED <<devices, history, target, targetKeys, isHelium, devEUIs,
                   batchSize, results, pauses, faultsLeft, discVars, keyVars>>

\* the 1000 ms pause between batches elapsed (line 316), i += batchSize
PauseDone ==
    /\ bpc = "pause"
    /\ pauses' = pauses + 1
    /\ LoopAt(devEUIs, batchSize, Plus(i, batchSize))
    /\ UNCHANGED <<devices, history, target, targetKeys, isHelium, devEUIs,
                   batchSize, results, faultsLeft, discVars, keyVars>>

NextBatch ==
    \/ \E list \in Lists, size \in 1..MaxBatch :
          StartBatch(list, [batchSize |-> size])
    \/ \E t \in DOMAIN tasks : GetDeviceDone(t)
    \/ \E t \in DOMAIN tasks : CreateDeviceDone(t)
    \/ \E t \in DOMAIN tasks : UpdateDeviceDone(t)
    \/ \E t \in DOMAIN tasks : DelayDone(t)
    \/ \E t \in DOMAIN tasks : CreateKeysDone(t)
    \/ \E t \in DOMAIN tasks : UpdateKeysDone(t)
    \/ \E t \in DOMAIN tasks : UpdateKeysPostDone(t)
    \/ \E t \in DOMAIN tasks : SaveDone(t)
    \/ \E t \in DOMAIN tasks : UpdateStatusDone(t)
    \/ \E t \in DOMAIN tasks : SaveFailedDone(t)
    \/ \E t \in DOMAIN tasks : UpdateFailedDone(t)
    \/ ChunkDone
    \/ PauseDone

SpecBatch == InitBatch /\ [][NextBatch]_vars

\* the options a caller hands over: a batch size, or none
Options == {[batchSize |-> size] : size \in 1..MaxBatch} \cup {NoOptions}

\* migrateDevices called with or without options.batchSize
NextOptions ==
    \/ \E list \in Lists, options \in Options : StartBatch(list, options)
    \/ \E t \in DOMAIN tasks : GetDeviceDone(t)
    \/ \E t \in DOMAIN tasks : CreateDeviceDone(t)
    \/ \E t \in DOMAIN tasks : UpdateDeviceDone(t)
    \/ \E t \in DOMAIN tasks : DelayDone(t)
    \/ \E t \in DOMAIN tasks : CreateKeysDone(t)
    \/ \E t \in DOMAIN tasks : UpdateKeysDone(t)
    \/ \E t \in DOMAIN tasks : UpdateKeysPostDone(t)
    \/ \E t \in DOMAIN tasks : SaveDone(t)
    \/ \E t \in DOMAIN tasks : UpdateStatusDone(t)
    \/ \E t \in DOMAIN tasks : SaveFailedDone(t)
    \/ \E t \in DOMAIN tasks : UpdateFailedDone(t)
    \/ ChunkDone
    \/ PauseDone

SpecOptions == InitBatch /\ [][NextOptions]_vars

\* the batch sizes a caller can put in options: negative, zero, positive
BatchSizes == (0 - MaxBatch)..MaxBatch

\* migrateDevices called with any options.batchSize, or none
NextSizes ==
    \/ \E list \in Lists, size \in BatchSizes :
          StartBatch(list, [batchSize |-> size])
    \/ \E list \in Lists : StartBatch(list, NoOptions)
    \/ \E t \in DOMAIN tasks : GetDeviceDone(t)
    \/ \E t \in DOMAIN tasks : CreateDeviceDone(t)
    \/ \E t \in DOMAIN tasks : UpdateDeviceDone(t)
    \/ \E t \in DOMAIN tasks : DelayDone(t)
    \/ \E t \in DOMAIN tasks : CreateKeysDone(t)
    \/ \E t \in DOMAIN tasks : UpdateKeysDone(t)
    \/ \E t \in DOMAIN tasks : UpdateKeysPostDone(t)
    \/ \E t \in DOMAIN tasks : SaveDone(t)
    \/ \E t \in DOMAIN tasks : UpdateStatusDone(t)
    \/ \E t \in DOMAIN tasks : SaveFailedDone(t)
    \/ \E t \in DOMAIN tasks : UpdateFailedDone(t)
    \/ ChunkDone
    \/ PauseDone

SpecSizes == InitBatch /\ [][NextSizes]_vars

----------------------------------------------------------------------------
(* ChirpStackClient: reading a device from the source backend *)

\* mutant: any value of a wire field is taken for a key
RealKey_Any(k) == k = k

\* a key the code takes for real: truthy and not the placeholder
RealKey(k) == k # NullKey /\ k # Placeholder

\* mutant: the appKey field is preferred whatever the version
ApplicationKey_IgnoresVersion(version, nwkKey, appKey) ==
    IF RealKey(appKey) THEN appKey ELSE nwkKey

\* mutant: a version that is neither 1.0.x nor 1.1.x yields no key
ApplicationKey_KnownVersionsOnly(version, nwkKey, appKey) ==
    IF version = "1.0.x"
    THEN IF RealKey(nwkKey) THEN nwkKey ELSE appKey
    ELSE IF version = "1.1.x"
         THEN IF RealKey(appKey) THEN appKey ELSE nwkKey
         ELSE Placeholder

\* getDeviceKeys, lines 877-898: the application key extracted from the two
\* wire fields of GetKeys under the configured lorawanVersion
ApplicationKey(version, nwkKey, appKey) ==
    LET applicationKey ==
            IF version = "1.0.x" /\ RealKey(nwkKey) THEN nwkKey ELSE appKey
    IN  IF ~RealKey(applicationKey) /\ RealKey(nwkKey)
        THEN nwkKey
        ELSE applicationKey

\* getDeviceKeys: the keys returned when GetKeys answered, and, from the catch
\* (lines 905-913), when it failed
GetDeviceKeys(version, keys, answered) ==
    IF answered
    THEN [appKey |-> ApplicationKey(version, keys.nwkKey, keys.appKey)]
    ELSE [appKey |-> Placeholder]

\* mutant: a failed GetActivation yields no device address
GetActivation_NoDefault(answered) ==
    IF answered THEN [devAddr |-> "01AB23CD"] ELSE [devAddr |-> NullKey]

\* getDeviceActivation: the activation returned when GetActivation answered,
\* and the all-zero one of the catch (lines 931-942) when it failed
GetDeviceActivation(answered) ==
    IF answered THEN [devAddr |-> "01AB23CD"] ELSE [devAddr |-> "00000000"]

\* limit: 100 of the List requests (lines 768, 774) and the default of
\* getDevices (line 800)
ListLimit == 100

\* what a List request with limit and offset is answered with: at most limit
\* entries of what the backend holds, from offset on
ListPage(held, limit, offset) ==
    SubSeq(held, offset + 1, Min(Len(held), offset + limit))

----------------------------------------------------------------------------
(* discoverDevices (POST /api/devices/discover) *)

MigUnchanged == UNCHANGED <<migVars, keyVars>>

\* a || b on key values
OrElse(a, b) == IF a = NullKey THEN b ELSE a

\* the row handed to saveDevice (lines 52-60); the listed device carries no
\* appKey of its own
DiscoveredRow(info) == [appKey |-> OrElse(info.keys.appKey, NullKey)]

\* INSERT OR REPLACE INTO devices: devEUI is UNIQUE, the row is replaced whole
SaveDevice(devs, devEUI, row) == [devs EXCEPT ![devEUI] = row]

\* INSERT OR REPLACE INTO session_keys: no UNIQUE column but the id
SaveSessionKeys(rows, sessionData) == Append(rows, sessionData)

CurrentDevice == sweep.found[sweep.idx]

\* the for loop moves on to the next device, or discoverDevices returns
NextDevice(sw) ==
    IF sw.idx < Len(sw.found)
    THEN [sw EXCEPT !.idx = @ + 1, !.pc = "info", !.info = IdleSweep.info]
    ELSE [sw EXCEPT !.pc = "returned", !.info = IdleSweep.info]

\* the catch of the loop body (lines 103-109)
SyncError(sw, message) ==
    NextDevice([sw EXCEPT !.results.errors =
                   Append(@, [devEUI |-> sw.found[sw.idx], error |-> message])])

\* lines 100-101
Synced(sw) == NextDevice([sw EXCEPT !.results.synced = @ + 1])

\* lines 38-46: the loop starts over the devices found
BeginLoop(sw) ==
    LET counted == [sw EXCEPT !.results.total = Len(sw.found)] IN
    IF Len(sw.found) = 0
    THEN [counted EXCEPT !.pc = "returned"]
    ELSE [counted EXCEPT !.pc = "info", !.idx = 1]

\* lines 74-98 up to the next await
AfterSession(sw) ==
    IF sw.info.deviceProfile # "none"
    THEN [sw EXCEPT !.pc = "getProfile"]
    ELSE Synced(sw)

\* discoverDevices is called: getAllDevicesForAllApplications, getApplications
StartDiscover ==
    /\ sweep.pc \in {"idle", "returned", "thrown"}
    /\ sweeps < MaxSweeps
    /\ sweeps' = sweeps + 1
    /\ sweep' = [IdleSweep EXCEPT !.pc = "apps"]
    /\ UNCHANGED <<devices, sessionKeys, profiles, source, tenant, ui,
                   lorawanVersion,
                   faultsLeft>>
    /\ MigUnchanged

\* getApplications answered (lines 819-822); a failure is rethrown
AppsListed ==
    /\ sweep.pc = "apps"
    /\ \/ /\ Ok
          /\ sweep' = LET applications == ListPage(tenant, ListLimit, 0) IN
                       IF applications = <<>>
                       THEN BeginLoop(sweep)
                       ELSE [sweep EXCEPT !.pc = "devices",
                                          !.apps = applications]
       \/ /\ Fail
          /\ sweep' = [sweep EXCEPT !.pc = "thrown"]
    /\ UNCHANGED <<devices, sessionKeys, profiles, source, tenant, ui,
                   lorawanVersion,
                   sweeps>>
    /\ MigUnchanged

\* getDevices(app.id) answered (lines 823-843); a failure is only logged
DevicesListed ==
    LET app == Head(sweep.apps)
        listed(found) ==
            LET sw == [sweep EXCEPT !.found = found, !.apps = Tail(@)] IN
            IF Tail(sweep.apps) = <<>> THEN BeginLoop(sw) ELSE sw
    IN
    /\ sweep.pc = "devices"
    /\ \/ /\ Ok
          /\ sweep' = listed(sweep.found
                               \o ListPage(app.devices, ListLimit, 0))
       \/ /\ Fail
          /\ sweep' = listed(sweep.found)
    /\ UNCHANGED <<devices, sessionKeys, profiles, source, tenant, ui,
                   lorawanVersion,
                   sweeps>>
    /\ MigUnchanged

\* getCompleteDeviceInfo answered (lines 974-1000): Get, GetKeys and
\* GetActivation settled, then the profile Get; db.saveDevice is called
InfoDone ==
    LET d == CurrentDevice
        cost(b) == IF b THEN 0 ELSE 1
    IN
    /\ sweep.pc = "info"
    /\ \E deviceOk, keysOk, activationOk, profileOk \in BOOLEAN :
          LET failed == cost(deviceOk) + cost(keysOk)
                          + (IF source[d].activated THEN cost(activationOk)
                             ELSE 0)
                          + (IF deviceOk THEN cost(profileOk) ELSE 0)
          IN
          /\ ~deviceOk => profileOk
          /\ ~source[d].activated => ~activationOk
          /\ failed <= faultsLeft
          /\ faultsLeft' = faultsLeft - failed
          /\ sweep' = [sweep EXCEPT
                 !.pc = "saveDevice",
                 !.info = [device |-> IF deviceOk THEN "device" ELSE "null",
                           keys |-> GetDeviceKeys(lorawanVersion, source[d],
                                                  keysOk),
                           activation |-> GetDeviceActivation(activationOk),
                           deviceProfile |-> IF deviceOk /\ profileOk
                                             THEN "profile1" ELSE "none"]]
    /\ UNCHANGED <<devices, sessionKeys, profiles, source, tenant, ui,
                   lorawanVersion,
                   sweeps>>
    /\ MigUnchanged

\* db.saveDevice answered (lines 52-72); the activation object is always
\* truthy, so db.saveSessionKeys is called next
SaveDeviceDone ==
    /\ sweep.pc = "saveDevice"
    /\ \/ /\ Ok
          /\ devices' = SaveDevice(devices, CurrentDevice,
                                   DiscoveredRow(sweep.info))
          /\ sweep' = [sweep EXCEPT !.pc = "saveSession"]
       \/ /\ Fail
          /\ devices' = devices
          /\ sweep' = SyncError(sweep, "db error")
    /\ UNCHANGED <<sessionKeys, profiles, source, tenant, ui, lorawanVersion,
                   sweeps>>
    /\ MigUnchanged

\* db.saveSessionKeys answered (lines 64-76)
SaveSessionDone ==
    /\ sweep.pc = "saveSession"
    /\ \/ /\ Ok
          /\ sessionKeys' = SaveSessionKeys(sessionKeys,
                 [devEUI |-> CurrentDevice,
                  devAddr |-> sweep.info.activation.devAddr])
          /\ sweep' = AfterSession(sweep)
       \/ /\ Fail
          /\ sessionKeys' = sessionKeys
          /\ sweep' = SyncError(sweep, "db error")
    /\ UNCHANGED <<devices, profiles, source, tenant, ui, lorawanVersion, sweeps>>
    /\ MigUnchanged

\* db.getDeviceProfile answered (lines 76-78)
GetProfileDone ==
    /\ sweep.pc = "getProfile"
    /\ \/ /\ Ok
          /\ sweep' = IF sweep.info.deviceProfile \in profiles
                      THEN Synced(sweep)
                      ELSE [sweep EXCEPT !.pc = "saveProfile"]
       \/ /\ Fail
          /\ sweep' = SyncError(sweep, "db error")
    /\ UNCHANGED <<devices, sessionKeys, profiles, source, tenant, ui,
                   lorawanVersion,
                   sweeps>>
    /\ MigUnchanged

\* db.saveDeviceProfile answered (lines 78-101)
SaveProfileDone ==
    /\ sweep.pc = "saveProfile"
    /\ \/ /\ Ok
          /\ profiles' = profiles \cup {sweep.info.deviceProfile}
          /\ sweep' = Synced(sweep)
       \/ /\ Fail
          /\ profiles' = profiles
          /\ sweep' = SyncError(sweep, "db error")
    /\ UNCHANGED <<devices, sessionKeys, source, tenant, ui, lorawanVersion,
                   sweeps>>
    /\ MigUnchanged

\* a wire field of GetKeys: omitted, the placeholder, or a key
WireKeys == {NullKey, Placeholder, K1}

\* an empty record store, a source backend holding the devices with any keys
\* in the two wire fields, joined or not
InitDiscover ==
    /\ devices = [d \in DevEUIs |-> Absent]
    /\ history = <<>>
    /\ target = [d \in DevEUIs |-> 0]
    /\ targetKeys = [d \in DevEUIs |-> NoKeys]
    /\ isHelium = TRUE
    /\ invocations = 0
    /\ tasks = <<>>
    /\ devEUIs = <<>>
    /\ batchSize = 0
    /\ i = 0
    /\ bpc = "none"
    /\ results = EmptyResults
    /\ chunks = <<>>
    /\ pauses = 0
    /\ sessionKeys = <<>>
    /\ profiles = {}
    /\ tenant = SourceApps
    /\ ui = IdleUI
    /\ source \in [DevEUIs -> [nwkKey : WireKeys, appKey : WireKeys,
                               activated : BOOLEAN]]
    /\ lorawanVersion \in {"1.0.x", "1.1.x"}
    /\ sweep = IdleSweep
    /\ sweeps = 0
    /\ faultsLeft = MaxSweepFaults
    /\ InitNoKeyCall

NextDiscover ==
    \/ StartDiscover
    \/ AppsListed
    \/ DevicesListed
    \/ InfoDone
    \/ SaveDeviceDone
    \/ SaveSessionDone
    \/ GetProfileDone
    \/ SaveProfileDone

SpecDiscover == InitDiscover /\ [][NextDiscover]_vars

----------------------------------------------------------------------------
(* The enumeration of discoverDevices over tenants of any size *)

\* the largest number of applications, and of devices in one application
MaxListed == 101

\* a tenant of nApps applications with nDevices devices each; a device is
\* named by its application and its rank in it
TenantOf(nApps, nDevices) ==
    [a \in 1..nApps |->
        [id |-> a, devices |-> [n \in 1..nDevices |-> <<a, n>>]]]

\* no application, one, or more than one List request returns
ListedSizes == {0, 1, MaxListed}

RECURSIVE DeviceCount(_)
\* the number of devices of the applications in apps
DeviceCount(apps) ==
    IF apps = <<>> THEN 0
    ELSE Len(Head(apps).devices) + DeviceCount(Tail(apps))

\* an empty record store, a backend that answers every call
InitList ==
    /\ devices = [d \in DevEUIs |-> Absent]
    /\ history = <<>>
    /\ target = [d \in DevEUIs |-> 0]
    /\ targetKeys = [d \in DevEUIs |-> NoKeys]
    /\ isHelium = TRUE
    /\ invocations = 0
    /\ tasks = <<>>
    /\ devEUIs = <<>>
    /\ batchSize = 0
    /\ i = 0
    /\ bpc = "none"
    /\ results = EmptyResults
    /\ chunks = <<>>
    /\ pauses = 0
    /\ sessionKeys = <<>>
    /\ profiles = {}
    /\ \E nApps, nDevices \in ListedSizes : tenant = TenantOf(nApps, nDevices)
    /\ ui = IdleUI
    /\ source = [d \in DevEUIs |->
                    [nwkKey |-> Placeholder, appKey |-> Placeholder,
                     activated |-> FALSE]]
    /\ lorawanVersion = "1.0.x"
    /\ sweep = IdleSweep
    /\ sweeps = 0
    /\ faultsLeft = 0
    /\ InitNoKeyCall

NextList ==
    \/ StartDiscover
    \/ AppsListed
    \/ DevicesListed

SpecList == InitList /\ [][NextList]_vars

----------------------------------------------------------------------------
(* One device addressed in either letter case *)

\* the identifier of D1 as the backend spells it, in lower case
D1Lower == "70b3d57ed0049d2a"

CaseIds == {D1, D1Lower}

\* getDevice: SELECT * FROM devices WHERE devEUI = ?
GetDevice(devs, devEUI) == devs[devEUI]

\* db.saveDevice(device) called with the identifier as spelt by the caller
SaveDeviceCalled(d, k) ==
    /\ \A t \in DOMAIN tasks : Settled(tasks[t])
    /\ devices' = SaveDevice(devices, d, [appKey |-> k])
    /\ UNCHANGED <<migVars, discVars, keyVars, faultsLeft>>

\* an empty record store whose devEUI column can hold either spelling, either
\* target variant
InitCase ==
    /\ devices = [d \in CaseIds |-> Absent]
    /\ history = <<>>
    /\ target = [d \in CaseIds |-> 0]
    /\ targetKeys = [d \in CaseIds |-> NoKeys]
    /\ isHelium \in BOOLEAN
    /\ invocations = 0
    /\ InitNoSweep
    /\ InitNoKeyCall
    /\ tasks = <<>>
    /\ devEUIs = <<>>
    /\ batchSize = 0
    /\ i = 0
    /\ bpc = "none"
    /\ results = EmptyResults
    /\ chunks = <<>>
    /\ pauses = 0
    /\ faultsLeft = MaxFaults

NextCase ==
    \/ \E d \in CaseIds : SaveDeviceCalled(d, K1)
    \/ \E d \in CaseIds : Invoke(d)
    \/ \E t \in DOMAIN tasks : GetDeviceDone(t)
    \/ \E t \in DOMAIN tasks : CreateDeviceDone(t)
    \/ \E t \in DOMAIN tasks : UpdateDeviceDone(t)
    \/ \E t \in DOMAIN tasks : DelayDone(t)
    \/ \E t \in DOMAIN tasks : CreateKeysDone(t)
    \/ \E t \in DOMAIN tasks : UpdateKeysDone(t)
    \/ \E t \in DOMAIN tasks : UpdateKeysPostDone(t)
    \/ \E t \in DOMAIN tasks : SaveDone(t)
    \/ \E t \in DOMAIN tasks : UpdateStatusDone(t)
    \/ \E t \in DOMAIN tasks : SaveFailedDone(t)
    \/ \E t \in DOMAIN tasks : UpdateFailedDone(t)

SpecCase == InitCase /\ [][NextCase]_vars

----------------------------------------------------------------------------
(* ChirpStackClient used on its own: createDeviceKeys, updateDeviceKeys and *)
(* getDeviceKeys against one backend                                        *)

KeyOthers == <<devices, migVars, discVars, faultsLeft>>

\* the appKey values a caller hands over in keysData
Credentials == {K1, K2}

\* a wire field of GetKeys: omitted, the placeholder, or one of two keys
WireFields == {NullKey, Placeholder, K1, K2}

\* the request a key-assignment method sends: REST path or gRPC method, and
\* the deviceKeys built from keysData (keysData is kept beside them)
KeyRequest(method, keysData) ==
    [method |-> method, keysData |-> keysData,
     deviceKeys |-> DeviceKeys(keysData)]

Sent(client, method) ==
    [client EXCEPT !.requests = Append(@, KeyRequest(method, client.keysData))]

\* the backend, having accepted deviceKeys, holds the field(s) it echoes; the
\* other field reads back blank (omitted or the placeholder)
Echo(rem, deviceKeys, blank, keysData) ==
    [rem EXCEPT
        !.nwkKey = IF rem.echo \in {"nwkKey", "both"}
                   THEN deviceKeys.nwkKey ELSE blank,
        !.appKey = IF rem.echo \in {"appKey", "both"}
                   THEN deviceKeys.appKey ELSE blank,
        !.written = keysData]

\* the answer of the backend to the request sent last: accepted and stored,
\* or rejected
Answered(accepted) ==
    IF accepted
    THEN \E blank \in {NullKey, Placeholder} :
            remote' = Echo(remote,
                           keyClient.requests[Len(keyClient.requests)].deviceKeys,
                           blank, keyClient.keysData)
    ELSE remote' = remote

\* createDeviceKeys(devEUI, keysData) is called (lines 1043-1064): POST
\* devices/:devEUI/keys on the REST variant, CreateKeys over gRPC
CallCreateDeviceKeys(k) ==
    /\ keyClient.pc = "idle"
    /\ keyClient.calls < MaxKeyCalls
    /\ keyClient' = Sent([keyClient EXCEPT !.pc = "create", !.keysData = k,
                                           !.calls = @ + 1],
                         IF isHelium THEN "POST" ELSE "CreateKeys")
    /\ UNCHANGED <<remote, KeyOthers>>

\* the request of createDeviceKeys answered: it returns or rethrows
CreateKeysAnswered ==
    /\ keyClient.pc = "create"
    /\ \E accepted \in BOOLEAN : Answered(accepted)
    /\ keyClient' = [keyClient EXCEPT !.pc = "idle"]
    /\ UNCHANGED KeyOthers

\* updateDeviceKeys(devEUI, keysData) is called (lines 1105-1133): PUT
\* devices/:devEUI/keys on the REST variant, UpdateKeys over gRPC
CallUpdateDeviceKeys(k) ==
    /\ keyClient.pc = "idle"
    /\ keyClient.calls < MaxKeyCalls
    /\ keyClient' = Sent([keyClient EXCEPT !.pc = "update", !.keysData = k,
                                           !.calls = @ + 1],
                         IF isHelium THEN "PUT" ELSE "UpdateKeys")
    /\ UNCHANGED <<remote, KeyOthers>>

\* the PUT or UpdateKeys answered: a rejected PUT is followed by the POST of
\* lines 1122-1124, a rejected UpdateKeys is rethrown
UpdateKeysAnswered ==
    /\ keyClient.pc = "update"
    /\ \E accepted \in BOOLEAN :
          /\ Answered(accepted)
          /\ keyClient' = IF ~accepted /\ isHelium
                          THEN Sent([keyClient EXCEPT !.pc = "post"], "POST")
                          ELSE [keyClient EXCEPT !.pc = "idle"]
    /\ UNCHANGED KeyOthers

\* the POST fallback of updateDeviceKeys answered
PostAnswered ==
    /\ keyClient.pc = "post"
    /\ \E accepted \in BOOLEAN : Answered(accepted)
    /\ keyClient' = [keyClient EXCEPT !.pc = "idle"]
    /\ UNCHANGED KeyOthers

\* getDeviceKeys(devEUI) is called (lines 871-875): GetKeys is sent
CallGetDeviceKeys ==
    /\ keyClient.pc = "idle"
    /\ keyClient' = [keyClient EXCEPT !.pc = "getKeys", !.read = NoKeys,
                                      !.outcome = "none"]
    /\ UNCHANGED <<remote, KeyOthers>>

\* GetKeys answered with the two fields the backend holds, or failed;
\* getDeviceKeys returns.  Beside the appKey returned, read keeps what it was
\* computed from.
GetKeysAnswered ==
    /\ keyClient.pc = "getKeys"
    /\ \E answered \in BOOLEAN :
          keyClient' = [keyClient EXCEPT
              !.pc = "idle",
              !.outcome = "returned",
              !.read = [appKey |-> GetDeviceKeys(lorawanVersion, remote,
                                                 answered).appKey,
                        answered |-> answered,
                        nwkKeyField |-> remote.nwkKey,
                        appKeyField |-> remote.appKey,
                        written |-> remote.written]]
    /\ UNCHANGED <<remote, KeyOthers>>

\* either variant, either version, a backend holding anything in its two key
\* fields and echoing one of them or both
InitKeys ==
    /\ devices = [d \in DevEUIs |-> Absent]
    /\ history = <<>>
    /\ target = [d \in DevEUIs |-> 0]
    /\ targetKeys = [d \in DevEUIs |-> NoKeys]
    /\ isHelium \in BOOLEAN
    /\ invocations = 0
    /\ tasks = <<>>
    /\ devEUIs = <<>>
    /\ batchSize = 0
    /\ i = 0
    /\ bpc = "none"
    /\ results = EmptyResults
    /\ chunks = <<>>
    /\ pauses = 0
    /\ sessionKeys = <<>>
    /\ profiles = {}
    /\ tenant = SourceApps
    /\ ui = IdleUI
    /\ source = [d \in DevEUIs |->
                    [nwkKey |-> Placeholder, appKey |-> Placeholder,
                     activated |-> FALSE]]
    /\ lorawanVersion \in {"1.0.x", "1.1.x"}
    /\ sweep = IdleSweep
    /\ sweeps = 0
    /\ faultsLeft = 0
    /\ keyClient = IdleClient(TargetConfig(isHelium))
    /\ remote \in [nwkKey : WireFields, appKey : WireFields,
                   echo : {"nwkKey", "appKey", "both"}, written : {NullKey},
                   activated : {FALSE}]

NextKeys ==
    \/ \E k \in Credentials : CallCreateDeviceKeys(k)
    \/ CreateKeysAnswered
    \/ \E k \in Credentials : CallUpdateDeviceKeys(k)
    \/ UpdateKeysAnswered
    \/ PostAnswered
    \/ CallGetDeviceKeys
    \/ GetKeysAnswered

SpecKeys == InitKeys /\ [][NextKeys]_vars

----------------------------------------------------------------------------
(* ChirpStackClient from its constructor on: the variant it settles on, and *)
(* getDeviceKeys, getDeviceActivation and activateDevice                    *)

\* the constructor, lines 497-499: the variant of the client built from config
IsHeliumChirpStack(config) ==
    \/ config.isHeliumChirpStack
    \/ config.name = "console.buoy.fish"
    \/ config.baseUrl = "https://console.buoy.fish:443"

\* the configurations a client is built from: the flag either way, the name
\* and base URL of the two deployments the constructor's comment speaks of
Configs ==
    [isHeliumChirpStack : BOOLEAN,
     name : {"Target LNS", "console.buoy.fish"},
     baseUrl : {"https://old.console.buoy.fish:443",
                "https://console.buoy.fish:443"}]

\* getDeviceActivation(devEUI) is called (lines 917-921): GetActivation is
\* sent over gRPC
CallGetDeviceActivation ==
    /\ keyClient.pc = "idle"
    /\ keyClient' = [keyClient EXCEPT !.pc = "getActivation",
                                      !.activation = NoActivation,
                                      !.outcome = "none"]
    /\ UNCHANGED <<remote, KeyOthers>>

\* GetActivation answered with the session the backend holds, with NotFound
\* when it holds none, or failed otherwise; getDeviceActivation returns
\* (lines 923-942)
GetActivationAnswered ==
    /\ keyClient.pc = "getActivation"
    /\ \E answer \in {"ok", "NotFound", "error"} :
          /\ answer = "ok" => remote.activated
          /\ answer = "NotFound" => ~remote.activated
          /\ keyClient' = [keyClient EXCEPT
                !.pc = "idle",
                !.outcome = "returned",
                !.activation =
                    [devAddr |-> GetDeviceActivation(answer = "ok").devAddr,
                     answer |-> answer]]
    /\ UNCHANGED <<remote, KeyOthers>>

\* activateDevice(devEUI, activationData) is called (lines 1141-1160): PUT
\* devices/:devEUI/activation on the REST variant, Activate over gRPC
CallActivateDevice ==
    /\ keyClient.pc = "idle"
    /\ keyClient.calls < MaxKeyCalls
    /\ keyClient' = [keyClient EXCEPT
          !.pc = "activate",
          !.calls = @ + 1,
          !.outcome = "none",
          !.activations = Append(@, IF isHelium THEN "PUT activation"
                                               ELSE "Activate")]
    /\ UNCHANGED <<remote, KeyOthers>>

\* the activation request answered: activateDevice returns success or
\* rethrows (lines 1155-1169)
ActivateAnswered ==
    /\ keyClient.pc = "activate"
    /\ \E accepted \in BOOLEAN :
          /\ remote' = [remote EXCEPT !.activated = @ \/ accepted]
          /\ keyClient' = [keyClient EXCEPT
                !.pc = "idle",
                !.outcome = IF accepted THEN "returned" ELSE "thrown"]
    /\ UNCHANGED KeyOthers

\* a client built from any configuration, against a backend that holds a key
\* or none and a session or none
InitClient ==
    /\ devices = [d \in DevEUIs |-> Absent]
    /\ history = <<>>
    /\ target = [d \in DevEUIs |-> 0]
    /\ targetKeys = [d \in DevEUIs |-> NoKeys]
    /\ invocations = 0
    /\ tasks = <<>>
    /\ devEUIs = <<>>
    /\ batchSize = 0
    /\ i = 0
    /\ bpc = "none"
    /\ results = EmptyResults
    /\ chunks = <<>>
    /\ pauses = 0
    /\ sessionKeys = <<>>
    /\ profiles = {}
    /\ tenant = SourceApps
    /\ ui = IdleUI
    /\ source = [d \in DevEUIs |->
                    [nwkKey |-> Placeholder, appKey |-> Placeholder,
                     activated |-> FALSE]]
    /\ lorawanVersion = "1.0.x"
    /\ sweep = IdleSweep
    /\ sweeps = 0
    /\ faultsLeft = 0
    /\ \E config \in Configs :
          /\ keyClient = IdleClient(config)
          /\ isHelium = IsHeliumChirpStack(config)
    /\ remote \in [nwkKey : {Placeholder, K1}, appKey : {Placeholder},
                   echo : {"both"}, written : {NullKey},
                   activated : BOOLEAN]

NextClient ==
    \/ \E k \in Credentials : CallCreateDeviceKeys(k)
    \/ CreateKeysAnswered
    \/ \E k \in Credentials : CallUpdateDeviceKeys(k)
    \/ UpdateKeysAnswered
    \/ PostAnswered
    \/ CallGetDeviceKeys
    \/ GetKeysAnswered
    \/ CallGetDeviceActivation
    \/ GetActivationAnswered
    \/ CallActivateDevice
    \/ ActivateAnswered

SpecClient == InitClient /\ [][NextClient]_vars

----------------------------------------------------------------------------
(* getDeviceKeys under any configured lorawanVersion *)

\* what a configuration says about the version: nothing, one of the two
\* strings the code names, or the one of the example configuration
ConfiguredVersions == {NullKey, "1.0.x", "1.1.x", "1.0.3"}

\* the constructor, line 486: config.lorawanVersion || '1.0.x'
LorawanVersionOf(configured) ==
    IF configured = NullKey THEN "1.0.x" ELSE configured

\* a gRPC client of any version against a backend holding anything in its two
\* key fields
InitRead ==
    /\ devices = [d \in DevEUIs |-> Absent]
    /\ history = <<>>
    /\ target = [d \in DevEUIs |-> 0]
    /\ targetKeys = [d \in DevEUIs |-> NoKeys]
    /\ isHelium = FALSE
    /\ invocations = 0
    /\ tasks = <<>>
    /\ devEUIs = <<>>
    /\ batchSize = 0
    /\ i = 0
    /\ bpc = "none"
    /\ results = EmptyResults
    /\ chunks = <<>>
    /\ pauses = 0
    /\ sessionKeys = <<>>
    /\ profiles = {}
    /\ tenant = SourceApps
    /\ ui = IdleUI
    /\ source = [d \in DevEUIs |->
                    [nwkKey |-> Placeholder, appKey |-> Placeholder,
                     activated |-> FALSE]]
    /\ \E configured \in ConfiguredVersions :
          lorawanVersion = LorawanVersionOf(configured)
    /\ sweep = IdleSweep
    /\ sweeps = 0
    /\ faultsLeft = 0
    /\ keyClient = IdleClient(TargetConfig(isHelium))
    /\ remote \in [nwkKey : WireFields, appKey : WireFields,
                   echo : {"both"}, written : {NullKey}, activated : {FALSE}]

NextRead ==
    \/ CallGetDeviceKeys
    \/ GetKeysAnswered

SpecRead == InitRead /\ [][NextRead]_vars

----------------------------------------------------------------------------
(* The browser UI: device selection and migrateSelectedDevices *)

\* the number of devices the device table shows
MaxShown == 6

\* the devices shown, named by their row
ShownDevices == 1..MaxShown

\* const batchSize = 5 (line 804)
UIBatchSize == 5

UIOthers == <<devices, migVars, sessionKeys, profiles, source, tenant,
              lorawanVersion, sweep, sweeps, keyVars, faultsLeft>>

RECURSIVE ArrayFrom(_)
\* Array.from(selectedDevices); the order of the rows stands for the order of
\* selection
ArrayFrom(set) ==
    IF set = {} THEN <<>>
    ELSE LET first == CHOOSE d \in set : \A e \in set : d <= e
         IN  <<first>> \o ArrayFrom(set \ {first})

\* clearSelection (lines 563-569)
ClearSelection(u) ==
    IF u.migrationInProgress THEN u ELSE [u EXCEPT !.selectedDevices = {}]

\* toggleDeviceSelection(devEUI) (lines 542-553): nothing happens while a
\* migration is in progress
ToggleDeviceSelection(d) ==
    /\ ~ui.migrationInProgress
    /\ ui' = [ui EXCEPT !.selectedDevices =
                  IF d \in @ THEN @ \ {d} ELSE @ \cup {d}]
    /\ UNCHANGED UIOthers

\* the Clear button
ClearSelectionClicked ==
    /\ ui.selectedDevices # {}
    /\ ui' = ClearSelection(ui)
    /\ ui' # ui
    /\ UNCHANGED UIOthers

\* one evaluation of the loop condition of line 805: the next batch is
\* sliced and /devices/:devEUI/migrate is posted for each entry, or the loop
\* ends: clearSelection(), then loadDevices() is awaited (lines 844-850)
UILoopAt(u, offset) ==
    IF LessThan(offset, Len(u.devEUIArray))
    THEN [u EXCEPT
            !.pc = "batch",
            !.i = offset,
            !.pending = LET batch == Slice(u.devEUIArray, offset, UIBatchSize)
                        IN  {batch[n] : n \in DOMAIN batch}]
    ELSE [ClearSelection(u) EXCEPT !.pc = "loadDevices", !.i = offset]

\* migrateSelectedDevices is called with a selection, a target application
\* and the confirmation given (lines 756-805)
MigrateSelectedDevices ==
    /\ ui.pc = "idle"
    /\ ui.selectedDevices # {}
    /\ ui' = UILoopAt([ui EXCEPT
                          !.migrationInProgress = TRUE,
                          !.devEUIArray = ArrayFrom(ui.selectedDevices),
                          !.completed = 0,
                          !.ended = "none"], 0)
    /\ UNCHANGED UIOthers

\* the POST for one device of the batch answered or failed: either way the
\* callback counts it and returns (lines 810-835)
ApiCallAnswered(d) ==
    /\ ui.pc = "batch"
    /\ d \in ui.pending
    /\ ui' = [ui EXCEPT !.pending = @ \ {d}, !.completed = @ + 1]
    /\ UNCHANGED UIOthers

\* Promise.all resolved (lines 837-842): pause, or next loop test
UIBatchDone ==
    /\ ui.pc = "batch"
    /\ ui.pending = {}
    /\ ui' = IF MoreToCome(ui.devEUIArray, UIBatchSize, ui.i)
             THEN [ui EXCEPT !.pc = "pause"]
             ELSE UILoopAt(ui, Plus(ui.i, UIBatchSize))
    /\ UNCHANGED UIOthers

\* the pause between batches elapsed (line 841)
UIPauseDone ==
    /\ ui.pc = "pause"
    /\ ui' = UILoopAt(ui, Plus(ui.i, UIBatchSize))
    /\ UNCHANGED UIOthers

\* loadDevices() returned (it catches its own errors, lines 469-479)
LoadDevicesDone ==
    /\ ui.pc = "loadDevices"
    /\ ui' = [ui EXCEPT !.pc = "loadHistory"]
    /\ UNCHANGED UIOthers

\* loadMigrationHistory() returned; the finally block runs (lines 851-859)
LoadHistoryDone ==
    /\ ui.pc = "loadHistory"
    /\ ui' = [ui EXCEPT !.pc = "idle", !.migrationInProgress = FALSE,
                        !.ended = "completed"]
    /\ UNCHANGED UIOthers

\* an exception is raised inside the try block (a DOM access of the log or
\* the progress bar): catch, then the finally block (lines 852-859)
RunThrows ==
    /\ ui.pc \in {"batch", "pause", "loadDevices", "loadHistory"}
    /\ ui' = [ui EXCEPT !.pc = "idle", !.migrationInProgress = FALSE,
                        !.pending = {}, !.ended = "error"]
    /\ UNCHANGED UIOthers

\* the page as loaded, over an empty record store
InitUI ==
    /\ InitRun
    /\ faultsLeft = 0
    /\ isHelium
    /\ devices = [d \in DevEUIs |-> Absent]

NextUI ==
    \/ \E d \in ShownDevices : ToggleDeviceSelection(d)
    \/ ClearSelectionClicked
    \/ MigrateSelectedDevices
    \/ \E d \in ShownDevices : ApiCallAnswered(d)
    \/ UIBatchDone
    \/ UIPauseDone
    \/ LoadDevicesDone
    \/ LoadHistoryDone
    \/ RunThrows

SpecUI == InitUI /\ [][NextUI]_vars

----------------------------------------------------------------------------
(* Properties of migrateDevice *)

Count(seq, x) == Cardinality({k \in DOMAIN seq : seq[k] = x})

KeyCalls(task) ==
    Count(task.log, "createDeviceKeys") + Count(task.log, "updateDeviceKeys")

HasPlaceholder(task) ==
    devices[task.devEUI] # Absent /\ devices[task.devEUI].appKey = Placeholder

HasRealKey(task) ==
    devices[task.devEUI] # Absent /\ devices[task.devEUI].appKey = K1

\* the rows of migration_history the invocation inserted
RowsOf(task) == {r \in DOMAIN history : history[r].by = task.inv}

\* C1 as stated: a device whose stored appKey is the placeholder always ends
\* in requires_manual_steps, and no key-assignment call is issued for it.
C1_Original ==
    \A t \in DOMAIN tasks :
        HasPlaceholder(tasks[t]) =>
            /\ KeyCalls(tasks[t]) = 0
            /\ Settled(tasks[t]) => tasks[t].outcome = "requires_manual_steps"

\* C1 amended: for a device whose stored appKey is the placeholder no
\* key-assignment call is ever issued and the target never holds keys for it;
\* the invocation ends in requires_manual_steps, except that it ends in failed
\* when createDevice fails with an error other than Conflict or a record-store
\* call fails.
C1_PlaceholderNeverAssigned ==
    \A t \in DOMAIN tasks :
        HasPlaceholder(tasks[t]) =>
            /\ KeyCalls(tasks[t]) = 0
            /\ tasks[t].keyRequests = 0
            /\ Settled(tasks[t]) =>
                  \/ /\ tasks[t].outcome = "requires_manual_steps"
                     /\ tasks[t].err = "null"
                     /\ "manual_appkey" \in tasks[t].notes
                  \/ /\ tasks[t].outcome = "failed"
                     /\ tasks[t].err \in {"transport error", "db error"}

C1_Witness ==
    \E t \in DOMAIN tasks :
        /\ HasPlaceholder(tasks[t])
        /\ tasks[t].pc = "returned"
        /\ tasks[t].outcome = "requires_manual_steps"
        /\ target[tasks[t].devEUI] = 1

\* C2 as stated: a device with a real appKey always ends in completed or
\* failed, whatever the target answers.
C2_Original ==
    \A t \in DOMAIN tasks :
        (HasRealKey(tasks[t]) /\ Settled(tasks[t])) =>
            tasks[t].outcome \in {"completed", "failed"}

\* C2 amended: a device with a real appKey always ends with an outcome, which
\* is completed when a key-assignment call succeeded (the target then holds
\* the key in both fields), requires_manual_steps when every key-assignment
\* request was rejected, and failed otherwise; an unsettled invocation always
\* has a next step.
C2_RealKeyOutcome ==
    \A t \in DOMAIN tasks :
        HasRealKey(tasks[t]) =>
            /\ Settled(tasks[t]) <=> tasks[t].outcome \in Terminal
            /\ ~Settled(tasks[t]) => ENABLED TaskStep(t)
            /\ tasks[t].outcome = "completed" =>
                  /\ "key_set" \in tasks[t].notes
                  /\ targetKeys[tasks[t].devEUI] = DeviceKeys(K1)
            /\ tasks[t].outcome = "requires_manual_steps" =>
                  /\ "key_failed" \in tasks[t].notes
                  /\ "updateDeviceKeys" = tasks[t].log[Len(tasks[t].log) - 2]
            /\ tasks[t].outcome = "failed" => tasks[t].err # "null"

C2_Witness ==
    \E t \in DOMAIN tasks :
        /\ HasRealKey(tasks[t])
        /\ tasks[t].outcome = "requires_manual_steps"
        /\ tasks[t].err = "null"

C4_CompletedAtIffTerminal ==
    \A r \in DOMAIN history :
        (history[r].completed_at # "null") <=> (history[r].status \in Terminal)

\* C5 as stated: an invocation that reached a terminal state has inserted
\* exactly one row, by one saveMigrationRecord followed by one
\* updateMigrationStatus, and the row carries the terminal status.
C5_ExactlyOneRow ==
    \A t \in DOMAIN tasks :
        Settled(tasks[t]) =>
            /\ Cardinality(RowsOf(tasks[t])) = 1
            /\ Count(tasks[t].log, "db.saveMigrationRecord") = 1
            /\ Count(tasks[t].log, "db.updateMigrationStatus") = 1
            /\ \A r \in RowsOf(tasks[t]) : history[r].status = tasks[t].outcome

\* C6: migration_history is append-only across attempts: a step never removes
\* a row and changes only rows inserted by an invocation still running; the
\* row a re-run writes is a new one, appended after the rows of earlier
\* invocations.
C6_AppendOnly ==
    [][/\ Len(history') >= Len(history)
       /\ \A r \in DOMAIN history :
             history'[r] # history[r] =>
                 \E t \in DOMAIN tasks :
                     ~Settled(tasks[t]) /\ history[r].by = tasks[t].inv
       /\ \A r \in DOMAIN history' :
             r > Len(history) =>
                 \A q \in DOMAIN history : history[q].by <= history'[r].by]_vars

C6_Witness ==
    \E r, q \in DOMAIN history :
        /\ r < q
        /\ history[r].devEUI = history[q].devEUI
        /\ history[r].by < history[q].by
        /\ history[r].status = "requires_manual_steps"
        /\ history[q].status = "completed"
        /\ history[q].completed_at # "null"

C14_ProvisioningErrorFails ==
    \A t \in DOMAIN tasks :
        (\/ tasks[t].err = "transport error"
         \/ Count(tasks[t].log, "could not update") = 1) =>
            /\ KeyCalls(tasks[t]) = 0
            /\ Settled(tasks[t]) => tasks[t].outcome = "failed"

\* C15: for a devEUI without a row in devices, migrateDevice calls nothing but
\* the record store, the target holds nothing for the devEUI, the invocation
\* ends in failed and every row it writes has status failed; when no
\* record-store call failed it writes exactly one row, which carries the
\* not-found reason in migration_options and in error_message.
C15_NotFoundLocally ==
    \A t \in DOMAIN tasks :
        LET task == tasks[t] IN
        devices[task.devEUI] = Absent =>
            /\ \A k \in DOMAIN task.log :
                  task.log[k] \in {"db.getDevice", "db.saveMigrationRecord",
                                   "db.updateMigrationStatus"}
            /\ task.keyRequests = 0
            /\ target[task.devEUI] = 0
            /\ targetKeys[task.devEUI] = NoKeys
            /\ task.outcome \in {"none", "failed"}
            /\ Settled(task) => task.outcome = "failed"
            /\ \A r \in RowsOf(task) : history[r].status = "failed"
            /\ faultsLeft = MaxFaults =>
                  /\ task.pc # "getDevice" => task.err = NotFound
                  /\ \A r \in RowsOf(task) :
                        history[r].migration_options = {NotFound}
                  /\ Settled(task) =>
                        /\ Cardinality(RowsOf(task)) = 1
                        /\ \A r \in RowsOf(task) :
                              history[r].error_message = NotFound

C15_Witness ==
    \E t \in DOMAIN tasks :
        /\ devices[tasks[t].devEUI] = Absent
        /\ tasks[t].pc = "thrown"
        /\ tasks[t].err = NotFound
        /\ \E r \in RowsOf(tasks[t]) :
              /\ history[r].status = "failed"
              /\ history[r].error_message = NotFound
              /\ history[r].migration_options = {NotFound}

\* C16: when the key assignment for a device with a real appKey failed (every
\* verb of the variant was tried: two requests over RPC, three over REST) the
\* invocation requires manual steps and its notes carry the text of the key
\* error; it returns requires_manual_steps and the row it wrote has that status
\* and those notes; it ends in failed only on a record-store error.
C16_KeyFailureIsManual ==
    \A t \in DOMAIN tasks :
        LET task == tasks[t] IN
        "key_failed" \in task.notes =>
            /\ HasRealAppKey(task.appKey)
            /\ task.keyRequests = IF isHelium THEN 3 ELSE 2
            /\ task.requiresManualSteps
            /\ "key_error_text" \in task.notes
            /\ "key_set" \notin task.notes
            /\ task.outcome \notin {"completed"}
            /\ task.outcome = "failed" => task.err = "db error"
            /\ \A r \in RowsOf(task) :
                  history[r].status # "failed" =>
                      /\ history[r].status = "requires_manual_steps"
                      /\ "key_error_text" \in history[r].migration_options
            /\ task.pc = "returned" =>
                  /\ task.outcome = "requires_manual_steps"
                  /\ history[task.recId].status = "requires_manual_steps"
                  /\ "key_error_text" \in history[task.recId].migration_options

C16_Witness ==
    \E t \in DOMAIN tasks :
        /\ "key_failed" \in tasks[t].notes
        /\ tasks[t].keyRequests = 3
        /\ tasks[t].pc = "returned"
        /\ history[tasks[t].recId].status = "requires_manual_steps"
        /\ history[tasks[t].recId].completed_at # "null"

\* C17 as stated: with a target of the REST (helium) variant every row written
\* by an invocation that got past provisioning (status completed or
\* requires_manual_steps) carries the note that activation was skipped.
C17_ActivationNote ==
    isHelium =>
        \A r \in DOMAIN history :
            history[r].status \in {"completed", "requires_manual_steps"} =>
                "activation_skipped" \in history[r].migration_options

\* C21 as stated: one invocation sends at most two key-assignment requests
\* to the target, on the RPC and on the REST variant alike.
C21_AtMostTwoKeyRequests ==
    \A t \in DOMAIN tasks : tasks[t].keyRequests <= 2

----------------------------------------------------------------------------
(* Properties of migrateDevices *)

RECURSIVE Flatten(_)
Flatten(seqs) ==
    IF seqs = <<>> THEN <<>> ELSE Head(seqs) \o Flatten(Tail(seqs))

CeilDiv(n, b) == (n + b - 1) \div b

TasksWith(outcomes) == {t \in DOMAIN tasks : tasks[t].outcome \in outcomes}

\* C8: for N identifiers and a positive batchSize B the batches sliced are
\* consecutive, non-empty, of at most B entries, and cover the list in order;
\* one migrateDevice is started per sliced entry, and when migrateDevices
\* returns there were exactly ceil(N/B) batches and one invocation per list
\* entry.
C8_Partition ==
    /\ \A k \in DOMAIN chunks :
          /\ Len(chunks[k]) >= 1
          /\ Len(chunks[k]) <= batchSize
          /\ k < Len(chunks) => Len(chunks[k]) = batchSize
    /\ Flatten(chunks) = SubSeq(devEUIs, 1, Len(tasks))
    /\ \A t \in DOMAIN tasks : tasks[t].devEUI = devEUIs[t] /\ tasks[t].inv = t
    /\ bpc = "done" =>
          /\ Len(chunks) = CeilDiv(Len(devEUIs), batchSize)
          /\ Len(tasks) = Len(devEUIs)

C8_Witness ==
    /\ bpc = "done"
    /\ Len(devEUIs) = 3
    /\ batchSize = 2
    /\ chunks = <<SubSeq(devEUIs, 1, 2), SubSeq(devEUIs, 3, 3)>>

\* C9: when migrateDevices returns, successful + failed = total = N, successful
\* is the number of devices that ended completed or requires_manual_steps,
\* failed the number that ended failed, and errors holds exactly one entry per
\* failed device; while it runs the counters count the settled invocations.
C9_Aggregate ==
    /\ bpc # "none" =>
          /\ results.total = Len(devEUIs)
          /\ results.successful =
                Cardinality(TasksWith({"completed", "requires_manual_steps"}))
          /\ results.failed = Cardinality(TasksWith({"failed"}))
          /\ Len(results.errors) = results.failed
          /\ \A d \in DevEUIs :
                Cardinality({k \in DOMAIN results.errors :
                                results.errors[k].devEUI = d})
                  = Cardinality({t \in TasksWith({"failed"}) :
                                    tasks[t].devEUI = d})
    /\ bpc = "done" =>
          /\ results.successful + results.failed = results.total
          /\ \A t \in DOMAIN tasks : Settled(tasks[t])

C9_Witness ==
    /\ bpc = "done"
    /\ results.total = 3
    /\ results.failed = 1
    /\ results.successful = 2
    /\ \E t \in DOMAIN tasks : tasks[t].outcome = "requires_manual_steps"
    /\ \E t \in DOMAIN tasks : tasks[t].outcome = "completed"

\* C10: every invocation outside the batch sliced last has settled, so no
\* device of a later batch starts before every device of the batches before
\* it reached its terminal state; the devices of one batch are all started
\* together, before any of them is awaited.
C10_ChunksSequential ==
    /\ \A t \in DOMAIN tasks :
          (chunks = <<>> \/ t \notin CurrentBatch) => Settled(tasks[t])
    /\ bpc \in {"chunk", "pause"} =>
          /\ Len(tasks) = i + Len(chunks[Len(chunks)])
          /\ CurrentBatch = {t \in DOMAIN tasks : t > i}
    /\ bpc = "pause" => \A t \in DOMAIN tasks : Settled(tasks[t])

\* a batch of two whose invocations interleaved (the second recorded first),
\* followed by a second batch that is running
C10_Witness ==
    /\ Len(chunks) = 2
    /\ Len(chunks[1]) = 2
    /\ tasks[2].recId > 0
    /\ tasks[1].recId > tasks[2].recId
    /\ tasks[3].pc = "createDevice"

\* C11: one pause was awaited between every two consecutive batches and none
\* after the last: the pauses counted are the batches sliced minus one, a
\* pause is awaited only when a batch follows, and a run that returned after C
\* batches awaited C - 1 pauses.
C11_PausesBetweenChunks ==
    /\ pauses = IF chunks = <<>> THEN 0 ELSE Len(chunks) - 1
    /\ bpc = "pause" => Len(tasks) < Len(devEUIs)
    /\ bpc = "done" =>
          pauses = IF Len(devEUIs) = 0 THEN 0
                   ELSE CeilDiv(Len(devEUIs), batchSize) - 1

C11_Witness ==
    /\ bpc = "done"
    /\ Len(chunks) = 3
    /\ pauses = 2

\* C12: whatever happened to the other invocations, an invocation that has not
\* settled can take its next step, a batch whose invocations all settled lets
\* the loop go on (to the pause, the next batch or the return), and when
\* migrateDevices returns every list entry had its invocation and reached a
\* terminal state; migrateDevices has no other exit than that return.
C12_FailureIsolated ==
    /\ \A t \in DOMAIN tasks : ~Settled(tasks[t]) => ENABLED TaskStep(t)
    /\ (bpc = "chunk" /\ \A t \in CurrentBatch : Settled(tasks[t])) =>
          ENABLED ChunkDone
    /\ bpc = "pause" => ENABLED PauseDone
    /\ bpc \in {"none", "chunk", "pause", "done"}
    /\ bpc = "done" =>
          /\ Len(tasks) = Len(devEUIs)
          /\ \A t \in DOMAIN tasks : tasks[t].outcome \in Terminal

\* the first device failed on a record-store error while its failure was being
\* recorded; its sibling and the device of the next batch were migrated
C12_Witness ==
    /\ bpc = "done"
    /\ Len(chunks) = 2
    /\ Len(chunks[1]) = 2
    /\ tasks[1].outcome = "failed"
    /\ tasks[1].err = "db error"
    /\ Count(tasks[1].log, "db.saveMigrationRecord") = 1
    /\ tasks[2].outcome = "completed"
    /\ tasks[3].outcome = "completed"
    /\ results.failed = 1

----------------------------------------------------------------------------
(* Properties of the key calls of ChirpStackClient *)

\* C18: whenever getDeviceKeys returned from an answered GetKeys whose two
\* fields were each the placeholder or a key, the appKey returned is, under
\* 1.0.x, the nwkKey field if it is not the placeholder and the appKey field
\* otherwise (the placeholder when both are), and under 1.1.x the appKey field
\* unless it is the placeholder, then the nwkKey field.
C18_ReadMapping ==
    LET read == keyClient.read IN
    (/\ read # NoKeys
     /\ read.answered
     /\ read.nwkKeyField \in {Placeholder, K1, K2}
     /\ read.appKeyField \in {Placeholder, K1, K2}) =>
        read.appKey =
            IF lorawanVersion = "1.0.x"
            THEN IF read.nwkKeyField # Placeholder
                 THEN read.nwkKeyField ELSE read.appKeyField
            ELSE IF read.appKeyField # Placeholder
                 THEN read.appKeyField ELSE read.nwkKeyField

\* both fields hold a key, a different one each, and 1.0.x returns the nwkKey
C18_Witness ==
    /\ keyClient.read # NoKeys
    /\ keyClient.read.answered
    /\ lorawanVersion = "1.0.x"
    /\ keyClient.read.nwkKeyField = K1
    /\ keyClient.read.appKeyField = K2
    /\ keyClient.read.appKey = K1

\* C19: every request createDeviceKeys or updateDeviceKeys sent, over gRPC
\* (CreateKeys, UpdateKeys) or REST (POST, PUT, and the POST that follows a
\* rejected PUT), carries nwkKey and appKey both equal to keysData.appKey.
C19_BothFields ==
    \A k \in DOMAIN keyClient.requests :
        LET request == keyClient.requests[k] IN
        /\ request.deviceKeys.nwkKey = request.keysData
        /\ request.deviceKeys.appKey = request.keysData
        /\ request.method \in (IF isHelium THEN {"POST", "PUT"}
                               ELSE {"CreateKeys", "UpdateKeys"})

\* a rejected PUT followed by the POST fallback, both carrying the key
C19_Witness ==
    \E k \in DOMAIN keyClient.requests :
        /\ k > 1
        /\ keyClient.requests[k - 1].method = "PUT"
        /\ keyClient.requests[k].method = "POST"
        /\ keyClient.requests[k].keysData = K1
        /\ keyClient.requests[k].deviceKeys = [nwkKey |-> K1, appKey |-> K1]
        /\ keyClient.pc = "idle"
        /\ remote.written = K1

\* C20: under 1.0.x, getDeviceKeys answered by a backend that accepted a key
\* K (not the placeholder) from createDeviceKeys or updateDeviceKeys last, and
\* echoes the nwkKey field only, the appKey field only or both, returns K.
C20_RoundTrip ==
    LET read == keyClient.read IN
    (/\ read # NoKeys
     /\ read.answered
     /\ lorawanVersion = "1.0.x"
     /\ read.written \in {K1, K2}) =>
        read.appKey = read.written

\* K2 written over a backend that held K1 and echoes the appKey field only
C20_Witness ==
    /\ keyClient.read # NoKeys
    /\ keyClient.read.answered
    /\ lorawanVersion = "1.0.x"
    /\ remote.echo = "appKey"
    /\ keyClient.read.written = K2
    /\ keyClient.read.nwkKeyField \in {NullKey, Placeholder}
    /\ keyClient.read.appKey = K2
    /\ keyClient.calls = 2

----------------------------------------------------------------------------
(* Properties of discoverDevices *)

\* C7 as stated: a step of discoverDevices never leaves a device whose stored
\* appKey was a real key with the placeholder appKey.
C7_KeyNotOverwritten ==
    [][\A d \in DevEUIs :
          (devices[d] # Absent /\ RealKey(devices[d].appKey)) =>
              (devices'[d] # Absent /\ devices'[d].appKey # Placeholder)]_vars

\* C28 as stated: session_keys holds a row only for a device the source
\* backend has an activation for.
C28_SessionOnlyIfActivated ==
    \A k \in DOMAIN sessionKeys : source[sessionKeys[k].devEUI].activated

\* C29 as stated: whatever was written, the store holds at most one devices
\* row and at most one session_keys row per devEUI.
C29_OneRowPerDevEUI ==
    \A d \in DevEUIs :
        /\ Cardinality({e \in DOMAIN devices : e = d /\ devices[e] # Absent}) <= 1
        /\ Cardinality({k \in DOMAIN sessionKeys :
                           sessionKeys[k].devEUI = d}) <= 1

\* C25 as stated: a step of the loop in which a call made for the current
\* device failed (backend or record store) appends that device to errors, and
\* when discoverDevices returns total = synced + errors.length.
C25_FailuresCollected ==
    /\ [](sweep.pc = "returned" =>
            sweep.results.total
              = sweep.results.synced + Len(sweep.results.errors))
    /\ [][(/\ sweep.pc \in {"info", "saveDevice", "saveSession",
                            "getProfile", "saveProfile"}
           /\ faultsLeft' < faultsLeft) =>
              /\ Len(sweep'.results.errors) = Len(sweep.results.errors) + 1
              /\ sweep'.results.errors[Len(sweep'.results.errors)].devEUI
                    = CurrentDevice]_vars

\* C22: getDeviceKeys and getDeviceActivation never throw; when the backend
\* answered NotFound (or failed otherwise) they return the placeholder: the
\* all-zero appKey, the all-zero device address.
C22_SoftFail ==
    [][/\ keyClient.pc = "getKeys" =>
            /\ keyClient'.outcome = "returned"
            /\ ~keyClient'.read.answered =>
                    keyClient'.read.appKey = Placeholder
       /\ keyClient.pc = "getActivation" =>
            /\ keyClient'.outcome = "returned"
            /\ keyClient'.activation.answer # "ok" =>
                    keyClient'.activation.devAddr = "00000000"]_vars

\* GetActivation answered NotFound and getDeviceActivation returned the
\* placeholder session
C22_Witness ==
    /\ keyClient.pc = "idle"
    /\ keyClient.activation # NoActivation
    /\ keyClient.activation.answer = "NotFound"
    /\ keyClient.activation.devAddr = "00000000"
    /\ keyClient.outcome = "returned"

\* C23 as stated: on the variant without session activation (REST)
\* activateDevice sends no activation request and does not fail.
C23_UnsupportedIsNoOp ==
    isHelium =>
        /\ keyClient.activations = <<>>
        /\ keyClient.outcome # "thrown"

\* C24 as stated: the variant is the configured flag, whatever the name or
\* base URL: flag false sends gRPC requests only, flag true REST only.
C24_VariantFromFlag ==
    /\ isHelium = keyClient.config.isHeliumChirpStack
    /\ \A n \in DOMAIN keyClient.requests :
          keyClient.requests[n].method \in
              (IF keyClient.config.isHeliumChirpStack
               THEN {"POST", "PUT"}
               ELSE {"CreateKeys", "UpdateKeys"})

\* C26 as stated: once the enumeration is over, total is the number of
\* devices the tenant has on the source, whatever the number of applications
\* and of devices in each.
C26_EnumeratesAll ==
    sweep.pc \in {"info", "returned"} =>
        sweep.results.total = DeviceCount(tenant)

\* C27 as stated: migrateDevices called without options.batchSize runs with a
\* positive batch size, the configured default, and when it returns every
\* identifier was migrated: successful + failed = N.  (With a batch size
\* given both hold as well.)
C27_DefaultBatchSize ==
    bpc = "done" =>
        /\ results.successful + results.failed = Len(devEUIs)
        /\ batchSize # NaN
        /\ batchSize > 0

\* the canonical, upper-case spelling of an identifier
UpperCase(d) == IF d = D1Lower THEN D1 ELSE d

\* C30 as stated: identifiers are case-insensitive.  A device saved under one
\* spelling is found by getDevice under the other, the two spellings never
\* make two rows, and migrateDevice does not report a saved device as not
\* found.
C30_CaseInsensitive ==
    /\ \A a, b \in CaseIds :
          (UpperCase(a) = UpperCase(b) /\ GetDevice(devices, a) # Absent)
              => GetDevice(devices, b) # Absent
    /\ Cardinality({d \in CaseIds : devices[d] # Absent}) <= 1
    /\ \A t \in DOMAIN tasks :
          tasks[t].err = NotFound =>
              \A d \in CaseIds : devices[d] = Absent

\* the names of the calls the invocations made so far
CallsMade(ts) == UNION {{ts[t].log[n] : n \in DOMAIN ts[t].log} : t \in DOMAIN ts}

\* C31: no step of migrateDevice or migrateDevices changes the devices,
\* session_keys or device_profiles table or what the source holds; no device
\* leaves the target and no deleteDevice call is made.
C31_ReadsOnly ==
    [][/\ devices' = devices
       /\ sessionKeys' = sessionKeys
       /\ profiles' = profiles
       /\ source' = source
       /\ tenant' = tenant
       /\ \A d \in DOMAIN target : target'[d] >= target[d]
       /\ "deleteDevice" \notin CallsMade(tasks')]_vars

\* a batch ran to its end over a stored device that was provisioned on the
\* target and recorded, the row of the device still in place
C31_Witness ==
    /\ bpc = "done"
    /\ target[D1] = 1
    /\ devices[D1] = [appKey |-> K1]
    /\ \E r \in DOMAIN history : history[r].devEUI = D1

\* C32 as stated: once the invocation that wrote it has settled, a row with
\* status failed has an error_message, a row with status
\* requires_manual_steps has at least one note and a row with status
\* completed has the note that the key was set.
C32_OperatorDetail ==
    \A r \in DOMAIN history :
        (\A t \in DOMAIN tasks :
            tasks[t].inv = history[r].by => Settled(tasks[t])) =>
            /\ history[r].status = "failed" =>
                    history[r].error_message # "null"
            /\ history[r].status = "requires_manual_steps" =>
                    history[r].migration_options # {}
            /\ history[r].status = "completed" =>
                    "key_set" \in history[r].migration_options

\* C33 as stated: migrateDevices terminates for every list and every
\* options.batchSize.  Each iteration of a terminating loop starts at an
\* offset inside the list and beyond the one before, so there are never more
\* iterations than identifiers.
C33_Terminates ==
    /\ Len(chunks) <= Len(devEUIs)
    /\ bpc \in {"chunk", "pause"} => i >= 0

\* C34 as stated: an invocation of migrateDevice inserts at most one
\* migration_history row, also when a record-store call of the success path
\* fails.
C34_AtMostOneRow ==
    \A t \in DOMAIN tasks : Cardinality(RowsOf(tasks[t])) <= 1

\* the calls migrateDevice makes on the target backend
TargetCalls ==
    {"createDevice", "updateDevice", "createDeviceKeys", "updateDeviceKeys"}

\* C35: in the calls of one invocation, in the order made, db.getDevice comes
\* first; a key-assignment call comes after createDevice and, when that was
\* answered Conflict, after updateDevice; no target call follows a
\* saveMigrationRecord.
C35_Ordering ==
    \A t \in DOMAIN tasks :
        LET task == tasks[t]
            log == task.log
        IN
        /\ log[1] = "db.getDevice"
        /\ \A n \in DOMAIN log :
              log[n] \in {"createDeviceKeys", "updateDeviceKeys"} =>
                  /\ \E m \in 1..(n - 1) : log[m] = "createDevice"
                  /\ task.deviceExists =>
                        \E m \in 1..(n - 1) : log[m] = "updateDevice"
        /\ \A n \in DOMAIN log :
              log[n] = "db.saveMigrationRecord" =>
                  \A m \in DOMAIN log : m > n => log[m] \notin TargetCalls

\* an invocation answered Conflict went through updateDevice and both
\* key-assignment calls and wrote its record
C35_Witness ==
    \E t \in DOMAIN tasks :
        /\ tasks[t].deviceExists
        /\ Count(tasks[t].log, "updateDeviceKeys") = 1
        /\ Count(tasks[t].log, "createDeviceKeys") = 1
        /\ tasks[t].pc = "returned"
        /\ tasks[t].recId > 0

\* C36: whatever the options and the variant of the target, an invocation of
\* migrateDevice calls neither activateDevice nor deleteDevice; the source
\* keeps its devices and sessions.
C36_NoActivateNoDelete ==
    /\ \A t \in DOMAIN tasks :
          \A n \in DOMAIN tasks[t].log :
              tasks[t].log[n] \notin {"activateDevice", "deleteDevice"}
    /\ \A d \in DevEUIs : ~source[d].activated
    /\ tenant = SourceApps

\* an invocation asked to migrate the session and to remove the device from
\* the source set the key on a gRPC target and returned completed
C36_Witness ==
    \E t \in DOMAIN tasks :
        /\ tasks[t].options.migrateSessionKeys
        /\ tasks[t].options.removeFromOldLNS
        /\ ~isHelium
        /\ "key_set" \in tasks[t].notes
        /\ tasks[t].pc = "returned"
        /\ tasks[t].outcome = "completed"

\* C37: under every configured lorawanVersion, getDeviceKeys answered by
\* GetKeys returns the value of one of the two wire fields, and a key whenever
\* one of the fields holds a key.
C37_AnyVersion ==
    LET read == keyClient.read IN
    (read # NoKeys /\ read.answered) =>
        /\ read.appKey \in {read.nwkKeyField, read.appKeyField}
        /\ (read.nwkKeyField \in {K1, K2} \/ read.appKeyField \in {K1, K2}) =>
              read.appKey \in {K1, K2}

\* under the version of the example configuration, which is neither of the
\* two the code names, the key held in the nwkKey field alone is returned
C37_Witness ==
    /\ keyClient.read # NoKeys
    /\ keyClient.read.answered
    /\ lorawanVersion = "1.0.3"
    /\ keyClient.read.nwkKeyField = K1
    /\ keyClient.read.appKeyField = Placeholder
    /\ keyClient.read.appKey = K1

C39_FailuresVisible ==
    (sweep.pc = "returned" /\ sweep.results.errors = <<>>) =>
        /\ sweep.results.synced = DeviceCount(tenant)
        /\ \A a \in DOMAIN tenant :
              \A n \in DOMAIN tenant[a].devices :
                  devices[tenant[a].devices[n]] # Absent

\* C40 as stated: when migrateSelectedDevices has run to its end, with
\* success or with an error, migrationInProgress is false again, and after a
\* run that completed without throwing no device is selected.
C40_RunEnds ==
    [][(ui.pc # "idle" /\ ui'.pc = "idle") =>
          /\ ~ui'.migrationInProgress
          /\ ui'.ended = "completed" => ui'.selectedDevices = {}]_vars

====
